---- MODULE Spec2Model ----
(***************************************************************************)
(* ArrowDB: the Collection coordinator (src/src/core/collection.cpp), the  *)
(* HNSW index wrapper (src/src/index/hnsw_index.cpp) and the write-ahead   *)
(* log it drives (declared in src/include/arrow/wal.h).                    *)
(*                                                                         *)
(* One persistence directory p is modelled: meta.json, index.bin,          *)
(* metadata.json and wal/db.wal.  One process at a time owns a Collection  *)
(* on p; Crash ends the process without save, Load starts the next one.    *)
(***************************************************************************)
EXTENDS Integers, Sequences, FiniteSets, TLC

\* ------------------------------------------------------------------------
\* Bounds of the model
\* ------------------------------------------------------------------------
\* cap on the LSN/TXID counters: no mutation is started that would move a
\* counter past MaxLsn + 1
MaxLsn == 2
\* longest batch handed to insertBatch
MaxBatch == 2
\* cap on the number of records in wal/db.wal: no append is started that
\* would make the file longer
MaxWal == 2
\* queries of one searchBatch call
MaxQueries == 4

\* ------------------------------------------------------------------------
\* Configuration of the modelled collection
\* ------------------------------------------------------------------------
\* CollectionConfig::dimensions of the modelled collection
Dim == 2
\* IndexOptions::max_elements the collection may be constructed with
CapVals == {1, 2}
\* hnswlib's beam width before the first setEf
DefaultEf == 10

Ids == {1, 2}
\* vectors of the right length
GoodVecs == {<<1, 0>>, <<0, 1>>}
\* a vector of a wrong length
BadVecs == {<<1>>}
Vecs == GoodVecs \cup BadVecs
EfVals == {DefaultEf, 20}
KVals == {1, 2}
MetaVals == {"a"}
NoMeta == "none"

\* outcomes of one WAL file operation (append or truncate): done and synced;
\* failed before anything was written; written but the sync failed
WalOutcomes == {"ok", "open_fail", "sync_fail"}

\* ------------------------------------------------------------------------
\* utils::Status
\* ------------------------------------------------------------------------
OkStatus == "Ok"
kDimensionMismatch == "DimensionMismatch"
kNotFound == "NotFound"
kIoError == "IoError"
kEof == "Eof"
kBadHeader == "BadHeader"
kBadRecord == "BadRecord"
kChecksumMismatch == "ChecksumMismatch"
kInternal == "Internal"
kAlreadyExists == "AlreadyExists"
\* not a status: an exception leaves the call
Thrown == "exception"

\* ------------------------------------------------------------------------
\* WAL records
\* ------------------------------------------------------------------------
\* wal::OperationType
OpNames == <<"COMMIT_TXN", "ABORT_TXN", "INSERT", "DELETE", "UPDATE",
             "BATCH_INSERT">>
OpCode(type) == CHOOSE c \in 1..Len(OpNames) : OpNames[c] = type
kMinOperationType == 1
kMaxOperationType == 6
kMaxDimension == 65536
\* sizeof(float)
FloatSize == 4

\* Entry::computeHeaderCrc over {type, version, lsn, txid}: the CRC-32 is
\* modelled by a digest that is injective on the values the model uses
\* (type < 16, version < 4, lsn < 64)
HeaderCrcOf(code, version, lsn, txid) ==
    code + 16 * version + 64 * lsn + 4096 * txid

\* Entry::computePayloadCrc over the embedding, modelled the same way
\* (injective on floats 0..2)
RECURSIVE PayloadCrcOf(_)
PayloadCrcOf(emb) ==
    IF emb = <<>> THEN 0
    ELSE 1 + emb[Len(emb)] + 4 * PayloadCrcOf(SubSeq(emb, 1, Len(emb) - 1))

\* Entry::computePayloadLength
PayloadLengthOf(emb) == Len(emb) * FloatSize

\* wal::Entry as Collection builds it: version 1, padding 0, the two CRCs
\* and the payload length computed from the fields
Entry(type, lsn, txid, id, vec) ==
    [type |-> type, version |-> 1, lsn |-> lsn, txid |-> txid,
     headerCRC |-> HeaderCrcOf(OpCode(type), 1, lsn, txid),
     payloadLength |-> PayloadLengthOf(vec), vectorID |-> id,
     dimension |-> Len(vec), padding |-> 0, embedding |-> vec,
     payloadCRC |-> PayloadCrcOf(vec)]

\* variant: the CRC fields the caller supplied are written as they are
WriteEntryTrusting(e) ==
    <<OpCode(e.type), e.version, e.lsn, e.txid, e.headerCRC,
      e.payloadLength, e.vectorID, e.dimension, e.padding>>
        \o e.embedding \o <<e.payloadCRC>>

\* WriteEntry: the words of a record in wire order, one word per field and
\* per float; the CRCs and the payload length are computed at write time
WriteEntry(e) ==
    <<OpCode(e.type), e.version, e.lsn, e.txid,
      HeaderCrcOf(OpCode(e.type), e.version, e.lsn, e.txid),
      PayloadLengthOf(e.embedding), e.vectorID, e.dimension, e.padding>>
        \o e.embedding \o <<PayloadCrcOf(e.embedding)>>

\* words of a record before its payload
FixedWords == 9

ParseFailedAsIo(code) == [status |-> kIoError, used |-> 0, entry |-> <<>>]

ParseFailed(code) == [status |-> code, used |-> 0, entry |-> <<>>]

\* ParseEntry on the words b from the reader's position to the end of the
\* file: decode the fields, reject a bad type, reject a bad dimension, read
\* the payload (short read: IoError), recompute the CRCs, compare the
\* dimension with the payload read
ParseEntry(b) ==
    IF Len(b) < FixedWords THEN ParseFailed(kIoError)
    ELSE IF b[1] < kMinOperationType \/ b[1] > kMaxOperationType
         THEN ParseFailed(kBadRecord)
    ELSE IF b[8] > kMaxDimension THEN ParseFailed(kBadRecord)
    ELSE IF Len(b) < FixedWords + b[8] + 1 THEN ParseFailed(kIoError)
    ELSE LET emb == SubSeq(b, FixedWords + 1, FixedWords + b[8])
             crc == b[FixedWords + b[8] + 1]
         IN
         IF HeaderCrcOf(b[1], b[2], b[3], b[4]) # b[5]
                \/ PayloadCrcOf(emb) # crc
         THEN ParseFailed(kChecksumMismatch)
         ELSE IF b[8] # Len(emb) THEN ParseFailed(kBadRecord)
         ELSE [status |-> OkStatus, used |-> FixedWords + b[8] + 1,
               entry |-> [type |-> OpNames[b[1]], version |-> b[2],
                          lsn |-> b[3], txid |-> b[4], headerCRC |-> b[5],
                          payloadLength |-> b[6], vectorID |-> b[7],
                          dimension |-> b[8], padding |-> b[9],
                          embedding |-> emb, payloadCRC |-> crc]]

\* a WAL file: hdr says whether the 24-byte header is present; recs are the
\* records appended, in order; bad is the damage done to their words
\* ([pos, word, val]: word `word` of record `pos` reads val); junk are the
\* incomplete records ([pos, words]: the words left after record pos); gone
\* says that db.wal does not exist
HeaderOnly == [hdr |-> TRUE, recs |-> <<>>, bad |-> {}, junk |-> {},
               gone |-> FALSE]
EmptyFile == [hdr |-> FALSE, recs |-> <<>>, bad |-> {}, junk |-> {},
              gone |-> FALSE]
MissingFile == [hdr |-> FALSE, recs |-> <<>>, bad |-> {}, junk |-> {},
                gone |-> TRUE]

\* the words of record i as the file holds them
RecordWords(f, i) ==
    LET w == WriteEntry(f.recs[i]) IN
    [j \in 1..Len(w) |->
        IF \E d \in f.bad : d.pos = i /\ d.word = j
        THEN (CHOOSE d \in f.bad : d.pos = i /\ d.word = j).val
        ELSE w[j]]

\* the words left behind record i by an append that did not finish
JunkWords(f, i) ==
    IF \E t \in f.junk : t.pos = i
    THEN (CHOOSE t \in f.junk : t.pos = i).words
    ELSE <<>>

\* the words of the file after its header, from record i on
RECURSIVE FileWords(_, _)
FileWords(f, i) ==
    IF i > Len(f.recs) THEN <<>>
    ELSE RecordWords(f, i) \o JunkWords(f, i) \o FileWords(f, i + 1)

\* the read loop of readAll: parse until the end of the file; stop at the
\* first record that does not parse, with its status, unless the file ended
\* inside it: that is the partial tail, and the entries before it are the
\* result
RECURSIVE ReadEntries(_, _)
ReadEntries(b, acc) ==
    IF b = <<>> THEN [status |-> OkStatus, entries |-> acc]
    ELSE LET r == ParseEntry(b) IN
         IF r.status = OkStatus
         THEN ReadEntries(SubSeq(b, r.used + 1, Len(b)), Append(acc, r.entry))
         ELSE IF r.status = kIoError
              THEN [status |-> OkStatus, entries |-> acc]
         ELSE [status |-> r.status, entries |-> <<>>]

\* WAL::log / WAL::logBatch: the file after appending es with outcome w
WalAppend(f, es, w) ==
    IF w = "open_fail" THEN f
    ELSE [f EXCEPT !.recs = f.recs \o es, !.gone = FALSE]

\* the content known to be on stable storage after the append
WalAppendDurable(f, d, es, w) ==
    IF w = "ok" THEN WalAppend(f, es, w) ELSE d

WalStatus(w) == IF w = "ok" THEN OkStatus ELSE kIoError

\* WAL::truncate: open in truncate mode, write a fresh header, flush, sync
WalTruncate(f, w) ==
    IF w = "open_fail" THEN f ELSE HeaderOnly

WalTruncateDurable(f, d, w) ==
    IF w = "ok" THEN HeaderOnly ELSE d

\* WAL::readAll: the header, then every entry up to the end of the file
ReadAll(f) ==
    IF f.gone THEN [status |-> kNotFound, entries |-> <<>>]
    ELSE IF ~f.hdr /\ f.recs = <<>> THEN [status |-> kEof, entries |-> <<>>]
    ELSE IF ~f.hdr THEN [status |-> kBadHeader, entries |-> <<>>]
    ELSE ReadEntries(JunkWords(f, 0) \o FileWords(f, 1), <<>>)

\* WAL::loadHeader
kWalMagic == "0x41574C01"

LoadHeader(f) ==
    IF f.hdr THEN [status |-> OkStatus, magic |-> kWalMagic]
    ELSE [status |-> kBadHeader, magic |-> "none"]

\* ------------------------------------------------------------------------
\* HNSWIndex
\* ------------------------------------------------------------------------
\* a label is absent, live with its stored vector, or tombstoned (the vector
\* of a tombstoned label is never read again: an insert overwrites it)
Absent == [st |-> "absent", vec |-> <<>>]
Deleted == [st |-> "deleted", vec |-> <<>>]
LiveNode(v) == [st |-> "live", vec |-> v]

NoNodes == [i \in Ids |-> Absent]

\* HNSWIndex(dim, metric, config): an empty graph of capacity cap
EmptyIndex(cap) == [nodes |-> NoNodes, ef |-> DefaultEf, maxElements |-> cap]

\* variant: tombstones are not counted
IndexSizeLive(ix) == Cardinality({i \in Ids : ix.nodes[i].st = "live"})

\* HNSWIndex::size: cur_element_count, tombstones included
IndexSize(ix) == Cardinality({i \in Ids : ix.nodes[i].st # "absent"})

Live(ix) == {i \in Ids : ix.nodes[i].st = "live"}

\* HNSWIndex::insert: false on a wrong length; addPoint updates (and revives)
\* a known label and throws when a new label does not fit
IndexInsert(ix, id, vec) ==
    IF Len(vec) # Dim THEN [res |-> "false", ix |-> ix]
    ELSE IF ix.nodes[id].st # "absent"
         THEN [res |-> "true", ix |-> [ix EXCEPT !.nodes[id] = LiveNode(vec)]]
    ELSE IF IndexSize(ix) >= ix.maxElements THEN [res |-> Thrown, ix |-> ix]
    ELSE [res |-> "true", ix |-> [ix EXCEPT !.nodes[id] = LiveNode(vec)]]

\* HNSWIndex::markDelete: "Label not found" becomes NotFound, any other
\* exception of the library (already deleted) is swallowed
IndexMarkDelete(ix, id) ==
    IF ix.nodes[id].st = "absent" THEN [status |-> kNotFound, ix |-> ix]
    ELSE [status |-> OkStatus, ix |-> [ix EXCEPT !.nodes[id] = Deleted]]

Dot(a, b) == a[1] * b[1] + a[2] * b[2]

\* CollectionConfig::metric, fixed at construction and written to meta.json
VARIABLE metric

\* DistanceMetric
Metrics == {"Cosine", "L2", "InnerProduct"}

\* the distance of the library's space: L2Space is the squared Euclidean
\* distance, InnerProductSpace (Cosine and InnerProduct) is 1 - <q, v>
Dist(q, v) ==
    IF metric = "L2"
    THEN (q[1] - v[1]) * (q[1] - v[1]) + (q[2] - v[2]) * (q[2] - v[2])
    ELSE 1 - Dot(q, v)

\* `distToScoreConverter = (metric_ == DistanceMetric::L2) ? 1 : -1` times
\* the distance
Score(q, v) == (IF metric = "L2" THEN 1 ELSE -1) * Dist(q, v)

\* the k nearest live nodes, nearest first (ties: smaller id first)
RECURSIVE TopK(_, _, _, _)
TopK(ix, q, k, cand) ==
    IF k = 0 \/ cand = {} THEN <<>>
    ELSE LET best == CHOOSE i \in cand :
                        \A j \in cand :
                            \/ Dist(q, ix.nodes[i].vec) < Dist(q, ix.nodes[j].vec)
                            \/ /\ Dist(q, ix.nodes[i].vec) = Dist(q, ix.nodes[j].vec)
                               /\ i <= j
         IN <<[id |-> best, score |-> Score(q, ix.nodes[best].vec)]>>
                \o TopK(ix, q, k - 1, cand \ {best})

\* HNSWIndex::search: throws on a wrong length, else sets ef and searches
IndexSearch(ix, q, k, ef) ==
    IF Len(q) # Dim THEN [res |-> Thrown, hits |-> <<>>, ix |-> ix]
    ELSE [res |-> "ok", hits |-> TopK(ix, q, k, Live(ix)),
          ix |-> [ix EXCEPT !.ef = ef]]

HitIds(hits) == {hits[i].id : i \in 1..Len(hits)}

\* ------------------------------------------------------------------------
\* State
\* ------------------------------------------------------------------------
VARIABLES
    alive,              \* a process holds a Collection on the directory
    pIndex_,            \* Impl::pIndex_
    metadata_,          \* Impl::metadata_
    lsnCounter,         \* Impl::lsnCounter
    txidCounter,        \* Impl::txidCounter
    lastPersistedLsn_,  \* Impl::lastPersistedLsn_
    recoveredFromWal_,  \* Impl::recoveredFromWal_
    pend,               \* the mutation that is logged and not yet applied
    ret,                \* what the last call returned
    metaJson,           \* <p>/meta.json
    indexBin,           \* <p>/index.bin
    metadataJson,       \* <p>/metadata.json
    walFile,            \* <p>/wal/db.wal as the file system shows it
    walDurable,         \* its content that is on stable storage
    okLsn,              \* history: LSN of the last mutation that returned Ok
    okTxid,             \* history: TXID of the last mutation that returned Ok
    acked,              \* history: entries of the mutations that returned Ok
                        \* on this Collection since its last save
    clean,              \* history: no mutation or save of this Collection has
                        \* failed since its last successful save
    loaded,             \* history: the Collection was returned by load
    removed,            \* history: the ids whose remove returned Ok, until an
                        \* insert of the id is logged
    savedMeta,          \* history: the metadata map as it was at the last
                        \* save
    inserted,           \* history: the ids whose insert into the index of
                        \* this Collection succeeded (insert, insertBatch,
                        \* load of index.bin, replay)
    snap,               \* history: the collection as it was when the last
                        \* process ended
    logged,             \* history of the WAL object used on its own: the
                        \* entries its log calls wrote since the last reset
                        \* or truncate
    codec,              \* the codec used on its own: the entry handed to
                        \* WriteEntry, the words written, ParseEntry's result
    db,                 \* the ArrowDB registry: whether the object is there,
                        \* Impl::collections_ (the names), the
                        \* subdirectories of data_dir, its last call, and as
                        \* history the names created or loaded and not
                        \* dropped since (made), of which `kept` are those no
                        \* close() that returned Ok has taken away
    dirD,               \* a directory d other than the persistence path:
                        \* its meta.json, index.bin and metadata.json
    opts,               \* the index options on their way through meta.json:
                        \* Impl::hnswConfig_ of the collection that saves,
                        \* the "hnsw" object of meta.json, and
                        \* Impl::hnswConfig_ of the collection load returns
    calls,              \* the search calls of two caller threads that run
                        \* at the same time: their arguments, how far each
                        \* is, the ef its searchKnn read, and its hits
    srch                \* the last search, query or searchBatch call: its
                        \* arguments, what hardware_concurrency() returned
                        \* to it (hw), the worker threads of parallelSearch
                        \* (their ranges and positions), the result slots,
                        \* and as history the threads that wrote each slot

mem == <<alive, pIndex_, metadata_, lsnCounter, txidCounter,
         lastPersistedLsn_, recoveredFromWal_, pend>>
disk == <<metaJson, indexBin, metadataJson, walFile, walDurable>>
hist == <<okLsn, okTxid, acked, clean>>
\* the state outside the Collection's own operations
aux == <<logged, codec, metric, db, calls, opts, dirD>>
other == <<aux, srch>>
vars == <<mem, ret, disk, hist, loaded, savedMeta, removed, inserted, snap,
          other>>

NoMetadata == [i \in Ids |-> NoMeta]
NoPend == [op |-> "none", batch |-> <<>>, entries |-> <<>>]
NoSnap == [valid |-> FALSE, size |-> 0, lsn |-> 0, txid |-> 0,
           nodes |-> NoNodes, acked |-> {}, clean |-> FALSE, loaded |-> FALSE,
           afterSave |-> FALSE, meta |-> NoMetadata, during |-> "none",
           recovered |-> FALSE]

NoMetaJson == [exists |-> FALSE, lastPersistedLsn |-> 0,
               lastPersistedTxid |-> 0, cleanShutdown |-> FALSE]
NoIndexBin == [exists |-> FALSE, nodes |-> NoNodes, maxElements |-> 0]
NoMetadataJson == [exists |-> FALSE, map |-> NoMetadata]

NoSearch == [pc |-> "idle", op |-> "none", queries |-> <<>>, k |-> 0, ef |-> 0,
             hw |-> 0, results |-> <<>>, workers |-> <<>>, writers |-> <<>>]

NoCodec == [pc |-> "idle", e |-> <<>>, bytes |-> <<>>, out |-> <<>>]

\* collection names handed to the registry
Names == {"a", "b"}

\* the last call of the registry and what it returned
DbRet(op, name, code) == [op |-> op, name |-> name, code |-> code]

\* a directory no collection was saved to
NoDir == [metaJson |-> NoMetaJson, indexBin |-> NoIndexBin,
          metadataJson |-> NoMetadataJson]

\* a 64-bit unsigned number, as its four 16-bit digits, highest first
U64(a, b, c, d) == <<a, b, c, d>>

\* HNSWConfig: three size_t fields
NoConfig == [maxElements |-> U64(0, 0, 0, 0), M |-> U64(0, 0, 0, 0),
             efConstruction |-> U64(0, 0, 0, 0)]
NoOpts == [pc |-> "none", config |-> NoConfig, json |-> NoConfig,
           loaded |-> NoConfig]

\* the two threads that call search on the same Collection
Callers == {1, 2}

NoCall == [pc |-> "idle", q |-> <<>>, k |-> 0, ef |-> 0, beam |-> 0,
           hits |-> <<>>, thrown |-> FALSE]
NoCalls == [t \in Callers |-> NoCall]

\* ArrowDB(options) on an empty data_dir
EmptyDb == [open |-> TRUE, collections_ |-> {},
            dirs |-> [n \in Names |-> "none"],
            ret |-> DbRet("construct", "", OkStatus), made |-> {}, kept |-> {}]

\* the last call and what it returned: the operation, the status (Running
\* while the call is between its WAL append and its return), whether the
\* vector argument had a wrong length, and for insertBatch the argument and
\* the BatchInsertResult
Ret(op, code, bad) ==
    [op |-> op, code |-> code, bad |-> bad, batch |-> <<>>, results |-> <<>>,
     successCount |-> 0, failureCount |-> 0]

Running == "running"

\* Collection(config, indexOptions, persistencePath) on an empty directory:
\* initializeWal writes the header of a new wal/db.wal
InitWith(ms) ==
    /\ metric \in ms
    /\ alive = TRUE
    /\ \E cap \in CapVals : pIndex_ = EmptyIndex(cap)
    /\ metadata_ = NoMetadata
    /\ lsnCounter = 1
    /\ txidCounter = 1
    /\ lastPersistedLsn_ = 0
    /\ recoveredFromWal_ = FALSE
    /\ pend = NoPend
    /\ ret = Ret("construct", OkStatus, FALSE)
    /\ metaJson = NoMetaJson
    /\ indexBin = NoIndexBin
    /\ metadataJson = NoMetadataJson
    /\ walFile = HeaderOnly
    /\ walDurable = HeaderOnly
    /\ okLsn = 0
    /\ okTxid = 0
    /\ acked = {}
    /\ clean = TRUE
    /\ loaded = FALSE
    /\ savedMeta = NoMetadata
    /\ removed = {}
    /\ inserted = {}
    /\ logged = <<>>
    /\ codec = NoCodec
    /\ db = EmptyDb
    /\ calls = NoCalls
    /\ opts = NoOpts
    /\ dirD = NoDir
    /\ srch = NoSearch
    /\ snap = NoSnap

\* a Collection of the Cosine metric
Init == InitWith({"Cosine"})

\* a caller may start a call: the collection is there, no call is between
\* its log append and its return, and no searchBatch holds the caller
Idle == alive /\ pend.op = "none" /\ srch.pc # "running"

\* ------------------------------------------------------------------------
\* Collection::insert
\* ------------------------------------------------------------------------
\* variant: the gate lets every vector through
ValidDimensionAny(vec) == TRUE

\* the dimension gate of insert and insertBatch
ValidDimension(vec) == Len(vec) = Dim

\* variant: the status of the append is dropped
WalFailedNever(status) == FALSE

\* variant: only an exception of the append ends the call
WalFailedOnThrow(status) == status = Thrown

\* `if (!status.ok()) return status;` after WAL::log / WAL::logBatch
WalFailed(status) == status # OkStatus

\* variant: the counter is read and not advanced
NextCounterStuck(c) == c

\* lsnCounter++ / txidCounter++
NextCounter(c) == c + 1

\* first half: dimension gate, LSN/TXID assignment, WAL append
InsertCall(id, vec, w) ==
    /\ Idle
    /\ snap' = NoSnap
    /\ srch' = NoSearch
    /\ UNCHANGED aux
    /\ UNCHANGED <<loaded, savedMeta>>
    /\ IF ~ValidDimension(vec)
       THEN /\ ret' = Ret("insert", kDimensionMismatch, Len(vec) # Dim)
            /\ UNCHANGED <<mem, disk, hist, removed, inserted>>
       ELSE LET entry == Entry("INSERT", lsnCounter, txidCounter, id, vec) IN
            /\ removed' = removed \ {id}
            /\ inserted' = inserted
            /\ lsnCounter' = NextCounter(lsnCounter)
            /\ txidCounter' = NextCounter(txidCounter)
            /\ walFile' = WalAppend(walFile, <<entry>>, w)
            /\ walDurable' = WalAppendDurable(walFile, walDurable, <<entry>>, w)
            /\ IF WalFailed(WalStatus(w))
               THEN /\ ret' = Ret("insert", WalStatus(w), Len(vec) # Dim)
                    /\ pend' = NoPend
                    /\ clean' = FALSE
               ELSE /\ ret' = Ret("insert", Running, Len(vec) # Dim)
                    /\ pend' = [op |-> "insert",
                                batch |-> <<[id |-> id, vec |-> vec]>>,
                                entries |-> <<entry>>]
                    /\ clean' = clean
            /\ UNCHANGED <<alive, pIndex_, metadata_, lastPersistedLsn_,
                           recoveredFromWal_, metaJson, indexBin, metadataJson,
                           okLsn, okTxid, acked>>

\* second half: apply to the index and return
InsertApply ==
    /\ alive
    /\ pend.op = "insert"
    /\ LET r == IndexInsert(pIndex_, pend.batch[1].id, pend.batch[1].vec)
           e == pend.entries[1]
       IN
       /\ pIndex_' = r.ix
       /\ IF r.res = "true"
          THEN /\ ret' = Ret("insert", OkStatus, ret.bad)
               /\ inserted' = inserted \cup {e.vectorID}
               /\ okLsn' = e.lsn
               /\ okTxid' = e.txid
               /\ acked' = acked \cup {e}
               /\ clean' = clean
          ELSE /\ ret' = Ret("insert",
                             IF r.res = Thrown THEN Thrown ELSE kInternal,
                             ret.bad)
               /\ clean' = FALSE
               /\ UNCHANGED <<okLsn, okTxid, acked, inserted>>
    /\ pend' = NoPend
    /\ snap' = NoSnap
    /\ srch' = NoSearch
    /\ UNCHANGED aux
    /\ UNCHANGED <<loaded, savedMeta, removed>>
    /\ UNCHANGED <<alive, metadata_, lsnCounter, txidCounter,
                   lastPersistedLsn_, recoveredFromWal_, disk>>

\* ------------------------------------------------------------------------
\* Collection::remove
\* ------------------------------------------------------------------------
\* variant: the entry stays
EraseMetadataKept(meta, id) == meta

\* metadata_.erase(id)
EraseMetadata(meta, id) == [meta EXCEPT ![id] = NoMeta]

\* first half: LSN/TXID assignment, WAL append
RemoveCall(id, w) ==
    /\ Idle
    /\ snap' = NoSnap
    /\ srch' = NoSearch
    /\ UNCHANGED aux
    /\ UNCHANGED <<loaded, savedMeta, removed, inserted>>
    /\ LET entry == Entry("DELETE", lsnCounter, txidCounter, id, <<>>) IN
       /\ lsnCounter' = NextCounter(lsnCounter)
       /\ txidCounter' = NextCounter(txidCounter)
       /\ walFile' = WalAppend(walFile, <<entry>>, w)
       /\ walDurable' = WalAppendDurable(walFile, walDurable, <<entry>>, w)
       /\ IF WalFailed(WalStatus(w))
          THEN /\ ret' = Ret("remove", WalStatus(w), FALSE)
               /\ pend' = NoPend
               /\ clean' = FALSE
          ELSE /\ ret' = Ret("remove", Running, FALSE)
               /\ pend' = [op |-> "remove",
                           batch |-> <<[id |-> id, vec |-> <<>>]>>,
                           entries |-> <<entry>>]
               /\ clean' = clean
    /\ UNCHANGED <<alive, pIndex_, metadata_, lastPersistedLsn_,
                   recoveredFromWal_, metaJson, indexBin, metadataJson,
                   okLsn, okTxid, acked>>

\* second half: tombstone, erase the metadata, return
RemoveApply ==
    /\ alive
    /\ pend.op = "remove"
    /\ LET id == pend.batch[1].id
           r == IndexMarkDelete(pIndex_, id)
           e == pend.entries[1]
       IN
       /\ pIndex_' = r.ix
       /\ ret' = Ret("remove", r.status, FALSE)
       /\ IF r.status = OkStatus
          THEN /\ metadata_' = EraseMetadata(metadata_, id)
               /\ okLsn' = e.lsn
               /\ okTxid' = e.txid
               /\ acked' = acked \cup {e}
               /\ clean' = clean
               /\ removed' = removed \cup {id}
               /\ inserted' = inserted
          ELSE /\ clean' = FALSE
               /\ UNCHANGED <<metadata_, okLsn, okTxid, acked, removed, inserted>>
    /\ pend' = NoPend
    /\ snap' = NoSnap
    /\ srch' = NoSearch
    /\ UNCHANGED aux
    /\ UNCHANGED <<loaded, savedMeta>>
    /\ UNCHANGED <<alive, lsnCounter, txidCounter, lastPersistedLsn_,
                   recoveredFromWal_, disk>>

\* ------------------------------------------------------------------------
\* Collection::insertBatch
\* ------------------------------------------------------------------------
RECURSIVE SeqsUpTo(_, _)
SeqsUpTo(S, n) ==
    IF n = 0 THEN {<<>>}
    ELSE LET shorter == SeqsUpTo(S, n - 1) IN
         shorter \cup {Append(b, x) : b \in shorter, x \in S}

\* the batches of at most MaxBatch pairs with vectors from V
Batches(V) == SeqsUpTo([id : Ids, vec : V], MaxBatch)

\* variant: the counters advance before the dimension gate, for every pair
RECURSIVE BuildEntriesGap(_, _, _, _)
BuildEntriesGap(batch, i, lsn, txid) ==
    IF i > Len(batch) THEN <<>>
    ELSE IF ~ValidDimension(batch[i].vec)
         THEN BuildEntriesGap(batch, i + 1, lsn + 1, txid + 1)
    ELSE <<Entry("INSERT", lsn, txid, batch[i].id, batch[i].vec)>>
            \o BuildEntriesGap(batch, i + 1, lsn + 1, txid + 1)

\* the loop that builds walEntries: one INSERT entry per pair that passes the
\* dimension gate, with the counters as they advance
RECURSIVE BuildEntries(_, _, _, _)
BuildEntries(batch, i, lsn, txid) ==
    IF i > Len(batch) THEN <<>>
    ELSE IF ~ValidDimension(batch[i].vec)
         THEN BuildEntries(batch, i + 1, lsn, txid)
    ELSE <<Entry("INSERT", lsn, txid, batch[i].id, batch[i].vec)>>
            \o BuildEntries(batch, i + 1, NextCounter(lsn), NextCounter(txid))

\* variant: the rejected pair's id is not copied into its result
InitialResultsNoId(batch) ==
    [i \in 1..Len(batch) |->
        IF ValidDimension(batch[i].vec)
        THEN [id |-> 0, status |-> OkStatus]
        ELSE [id |-> 0, status |-> kDimensionMismatch]]

\* results[i] as the first loop leaves them: DimensionMismatch for a pair
\* that fails the gate, the default-constructed element for the others
InitialResults(batch) ==
    [i \in 1..Len(batch) |->
        IF ValidDimension(batch[i].vec)
        THEN [id |-> 0, status |-> OkStatus]
        ELSE [id |-> batch[i].id, status |-> kDimensionMismatch]]

InvalidCount(batch) ==
    Cardinality({i \in 1..Len(batch) : ~ValidDimension(batch[i].vec)})

\* the apply loop from position i on; acc carries the index, the results,
\* the two counts, the number of entries applied and whether addPoint threw
RECURSIVE ApplyBatch(_, _, _)
ApplyBatch(batch, i, acc) ==
    IF i > Len(batch) \/ acc.thrown THEN acc
    ELSE IF ~ValidDimension(batch[i].vec) THEN ApplyBatch(batch, i + 1, acc)
    ELSE LET r == IndexInsert(acc.ix, batch[i].id, batch[i].vec) IN
         IF r.res = Thrown THEN [acc EXCEPT !.thrown = TRUE]
         ELSE IF r.res = "true"
              THEN ApplyBatch(batch, i + 1,
                      [acc EXCEPT !.ix = r.ix,
                                  !.results[i] = [id |-> batch[i].id,
                                                  status |-> OkStatus],
                                  !.successCount = @ + 1,
                                  !.applied = @ + 1])
         ELSE ApplyBatch(batch, i + 1,
                 [acc EXCEPT !.results[i] = [id |-> batch[i].id,
                                             status |-> kInternal],
                             !.failureCount = @ + 1,
                             !.applied = @ + 1])

\* the second loop and the return: apply every valid pair to the index
BatchFinish(batch, entries) ==
    LET acc == ApplyBatch(batch, 1,
                  [ix |-> pIndex_, results |-> InitialResults(batch),
                   successCount |-> 0,
                   failureCount |-> InvalidCount(batch),
                   applied |-> 0, thrown |-> FALSE])
        done == SubSeq(entries, 1, acc.applied)
        allOk == ~acc.thrown /\ acc.successCount = Len(entries)
    IN
    /\ pIndex_' = acc.ix
    /\ inserted' = inserted \cup {done[j].vectorID : j \in 1..Len(done)}
    /\ ret' = IF acc.thrown THEN Ret("insertBatch", Thrown, FALSE)
              ELSE [op |-> "insertBatch", code |-> OkStatus, bad |-> FALSE,
                    batch |-> batch, results |-> acc.results,
                    successCount |-> acc.successCount,
                    failureCount |-> acc.failureCount]
    /\ IF allOk /\ done # <<>>
       THEN /\ okLsn' = done[Len(done)].lsn
            /\ okTxid' = done[Len(done)].txid
            /\ acked' = acked \cup {done[j] : j \in 1..Len(done)}
       ELSE UNCHANGED <<okLsn, okTxid, acked>>
    /\ clean' = (clean /\ allOk)

\* first half: validation, entry construction, one WAL append for the batch;
\* a failed append takes the counters back and returns the error.  A batch
\* without a valid pair appends nothing and runs through to its return.
InsertBatchCall(batch, w) ==
    LET entries == BuildEntries(batch, 1, lsnCounter, txidCounter) IN
    /\ Idle
    /\ entries = <<>> => w = "ok"
    /\ snap' = NoSnap
    /\ srch' = NoSearch
    /\ UNCHANGED aux
    /\ removed' = removed \ {entries[j].vectorID : j \in 1..Len(entries)}
    /\ inserted' = inserted
    /\ UNCHANGED <<loaded, savedMeta>>
    /\ UNCHANGED <<alive, metadata_, lastPersistedLsn_, recoveredFromWal_,
                   metaJson, indexBin, metadataJson>>
    /\ IF entries = <<>>
       THEN /\ BatchFinish(batch, entries)
            /\ UNCHANGED <<lsnCounter, txidCounter, pend, walFile, walDurable>>
       ELSE /\ walFile' = WalAppend(walFile, entries, w)
            /\ walDurable' = WalAppendDurable(walFile, walDurable, entries, w)
            /\ UNCHANGED <<pIndex_, okLsn, okTxid, acked>>
            /\ IF WalFailed(WalStatus(w))
               THEN /\ lsnCounter' = lsnCounter
                    /\ txidCounter' = txidCounter
                    /\ ret' = Ret("insertBatch", WalStatus(w), FALSE)
                    /\ pend' = NoPend
                    /\ clean' = FALSE
               ELSE /\ lsnCounter' = lsnCounter + Len(entries)
                    /\ txidCounter' = txidCounter + Len(entries)
                    /\ ret' = Ret("insertBatch", Running, FALSE)
                    /\ pend' = [op |-> "insertBatch", batch |-> batch,
                                entries |-> entries]
                    /\ clean' = clean

\* second half of a batch that was logged
InsertBatchApply ==
    /\ alive
    /\ pend.op = "insertBatch"
    /\ BatchFinish(pend.batch, pend.entries)
    /\ pend' = NoPend
    /\ snap' = NoSnap
    /\ srch' = NoSearch
    /\ UNCHANGED aux
    /\ UNCHANGED <<loaded, savedMeta, removed>>
    /\ UNCHANGED <<alive, metadata_, lsnCounter, txidCounter,
                   lastPersistedLsn_, recoveredFromWal_, disk>>

\* ------------------------------------------------------------------------
\* Collection::setMetadata, Collection::search
\* ------------------------------------------------------------------------
SetMetadata(id, m) ==
    /\ Idle
    /\ metadata_' = [metadata_ EXCEPT ![id] = m]
    /\ ret' = Ret("setMetadata", OkStatus, FALSE)
    /\ snap' = NoSnap
    /\ srch' = NoSearch
    /\ UNCHANGED aux
    /\ UNCHANGED <<loaded, savedMeta, removed, inserted>>
    /\ UNCHANGED <<alive, pIndex_, lsnCounter, txidCounter, lastPersistedLsn_,
                   recoveredFromWal_, pend, disk, hist>>

\* delegates to HNSWIndex::search; its exception is not caught
\* the call record of a search that ran on the caller's thread (thread 0)
Searched(op, q, k, ef, hits, thrown) ==
    [pc |-> "done", op |-> op, queries |-> <<q>>, k |-> k, ef |-> ef,
     hw |-> 0, results |-> IF thrown THEN <<>> ELSE <<hits>>, workers |-> <<>>,
     writers |-> IF thrown THEN <<>> ELSE <<<<0>>>>]

Search(q, k, ef) ==
    /\ Idle
    /\ LET r == IndexSearch(pIndex_, q, k, ef) IN
       /\ pIndex_' = r.ix
       /\ ret' = Ret("search", IF r.res = Thrown THEN Thrown ELSE OkStatus,
                     Len(q) # Dim)
       /\ srch' = Searched("search", q, k, ef, r.hits, r.res = Thrown)
    /\ snap' = NoSnap
    /\ UNCHANGED aux
    /\ UNCHANGED <<loaded, savedMeta, removed, inserted>>
    /\ UNCHANGED <<alive, metadata_, lsnCounter, txidCounter,
                   lastPersistedLsn_, recoveredFromWal_, pend, disk, hist>>

\* Collection::query: the search, each hit joined with the metadata of its id
Query(q, k, ef) ==
    /\ Idle
    /\ LET r == IndexSearch(pIndex_, q, k, ef)
           docs == [i \in 1..Len(r.hits) |->
                       [id |-> r.hits[i].id, score |-> r.hits[i].score,
                        metadata |-> metadata_[r.hits[i].id]]]
       IN
       /\ pIndex_' = r.ix
       /\ ret' = Ret("query", IF r.res = Thrown THEN Thrown ELSE OkStatus,
                     Len(q) # Dim)
       /\ srch' = Searched("query", q, k, ef, docs, r.res = Thrown)
    /\ snap' = NoSnap
    /\ UNCHANGED aux
    /\ UNCHANGED <<loaded, savedMeta, removed, inserted>>
    /\ UNCHANGED <<alive, metadata_, lsnCounter, txidCounter,
                   lastPersistedLsn_, recoveredFromWal_, pend, disk, hist>>

\* ------------------------------------------------------------------------
\* Collection::searchBatch and Impl::parallelSearch
\* ------------------------------------------------------------------------
\* `std::min(size_t(8), numQueries)`
MaxThreads == 8

Min2(a, b) == IF a < b THEN a ELSE b

\* variant: no fixed upper bound
NumThreadsUncapped(hw, n) == Min2(hw, n)

\* numThreads = min(hardware_concurrency(), min(8, numQueries))
NumThreads(hw, n) == Min2(hw, Min2(MaxThreads, n))

\* variant: the division rounds down
QueriesPerThreadFloor(n, t) == n \div t

\* queriesPerThread = (numQueries + numThreads - 1) / numThreads
QueriesPerThread(n, t) == (n + t - 1) \div t

\* the loop over t: start = t * queriesPerThread, end = min(start +
\* queriesPerThread, numQueries), and a thread for every t with start < end
\* (indexes from 0, end excluded; next is the worker's loop variable)
WorkerRanges(n, t) ==
    LET qpt == QueriesPerThread(n, t)
        all == [i \in 1..t |->
                   [start |-> (i - 1) * qpt,
                    end |-> Min2((i - 1) * qpt + qpt, n),
                    next |-> (i - 1) * qpt]]
    IN SelectSeq(all, LAMBDA r : r.start < r.end)

\* variant: only the first query is checked
SomeBadQueryFirst(queries) == queries # <<>> /\ Len(queries[1]) # Dim

\* the loop of searchBatch before any search: a query of a wrong length
SomeBadQuery(queries) == \E i \in 1..Len(queries) : Len(queries[i]) # Dim

\* `for (auto& thread : threads) thread.join();`
Joined(workers) == \A t \in 1..Len(workers) : workers[t].next = workers[t].end

\* searchBatch(queries, k, ef) on a machine with hw hardware threads: the
\* dimension check of every query, then parallelSearch, which searches on
\* the caller's thread (thread 0) when numThreads <= 1 or numQueries <= 1
\* and starts the workers otherwise
SearchBatchCall(queries, k, ef, hw) ==
    /\ Idle
    /\ snap' = NoSnap
    /\ UNCHANGED aux
    /\ UNCHANGED <<loaded, savedMeta, removed, inserted>>
    /\ UNCHANGED <<alive, metadata_, lsnCounter, txidCounter,
                   lastPersistedLsn_, recoveredFromWal_, pend, disk, hist>>
    /\ LET n == Len(queries)
           call == [pc |-> "done", op |-> "searchBatch", queries |-> queries,
                    k |-> k, ef |-> ef, hw |-> hw, results |-> <<>>,
                    workers |-> <<>>,
                    writers |-> [i \in 1..n |-> <<>>]]
       IN
       IF SomeBadQuery(queries)
       THEN /\ ret' = Ret("searchBatch", kDimensionMismatch, TRUE)
            /\ srch' = call
            /\ pIndex_' = pIndex_
       ELSE IF NumThreads(hw, n) <= 1 \/ n <= 1
       THEN /\ ret' = Ret("searchBatch", OkStatus, FALSE)
            /\ srch' = [call EXCEPT
                          !.results = [i \in 1..n |->
                              IndexSearch(pIndex_, queries[i], k, ef).hits],
                          !.writers = [i \in 1..n |-> <<0>>]]
            /\ pIndex_' = IF n = 0 THEN pIndex_
                          ELSE IndexSearch(pIndex_, queries[n], k, ef).ix
       ELSE /\ ret' = Ret("searchBatch", Running, FALSE)
            /\ srch' = [call EXCEPT
                          !.pc = "running",
                          !.results = [i \in 1..n |-> <<>>],
                          !.workers = WorkerRanges(n, NumThreads(hw, n))]
            /\ pIndex_' = pIndex_

\* one iteration of worker t: results[i] = index->search(queries[i], k, ef).
\* Every worker's setEf stores the same ef, so the searches that run
\* together all read that value.
WorkerStep(t) ==
    /\ srch.pc = "running"
    /\ t \in 1..Len(srch.workers)
    /\ srch.workers[t].next < srch.workers[t].end
    /\ LET i == srch.workers[t].next + 1
           r == IndexSearch(pIndex_, srch.queries[i], srch.k, srch.ef)
       IN /\ pIndex_' = r.ix
          /\ srch' = [srch EXCEPT !.results[i] = r.hits,
                                  !.writers[i] = Append(@, t),
                                  !.workers[t].next = @ + 1]
    /\ snap' = NoSnap
    /\ UNCHANGED <<ret, aux, loaded, savedMeta, removed, inserted>>
    /\ UNCHANGED <<alive, metadata_, lsnCounter, txidCounter,
                   lastPersistedLsn_, recoveredFromWal_, pend, disk, hist>>

\* the caller has joined every thread and returns the results
SearchBatchReturn ==
    /\ srch.pc = "running"
    /\ Joined(srch.workers)
    /\ srch' = [srch EXCEPT !.pc = "done"]
    /\ ret' = Ret("searchBatch", OkStatus, FALSE)
    /\ snap' = NoSnap
    /\ UNCHANGED <<mem, disk, hist, loaded, savedMeta, removed, inserted, aux>>

\* ------------------------------------------------------------------------
\* Collection::save (to the persistence directory)
\* ------------------------------------------------------------------------
\* variant: the next counter value is written instead of the last used one
PersistedNext(c) == c

\* RecoveryMetadata::lastPersistedLsn / lastPersistedTxid written by save
Persisted(c) == IF c > 0 THEN c - 1 ELSE 0

\* `if (!pImpl_->metadata_.empty())` guards the write of metadata.json
MetadataEmpty(m) == \A i \in Ids : m[i] = NoMeta

\* variant: save returns without the checkpoint
CheckpointWalSkipped(f, w) == f

\* the checkpoint at the end of save: pWal_->truncate()
CheckpointWal(f, w) == WalTruncate(f, w)

CheckpointWalDurable(f, d, w) == WalTruncateDurable(f, d, w)

Save(w) ==
    /\ Idle
    /\ metaJson' = [exists |-> TRUE,
                    lastPersistedLsn |-> Persisted(lsnCounter),
                    lastPersistedTxid |-> Persisted(txidCounter),
                    cleanShutdown |-> TRUE]
    /\ indexBin' = [exists |-> TRUE, nodes |-> pIndex_.nodes,
                    maxElements |-> pIndex_.maxElements]
    /\ metadataJson' = IF MetadataEmpty(metadata_) THEN metadataJson
                       ELSE [exists |-> TRUE, map |-> metadata_]
    /\ walFile' = CheckpointWal(walFile, w)
    /\ walDurable' = CheckpointWalDurable(walFile, walDurable, w)
    /\ IF WalFailed(WalStatus(w))
       THEN /\ ret' = Ret("save", WalStatus(w), FALSE)
            /\ clean' = FALSE
            /\ UNCHANGED lastPersistedLsn_
       ELSE /\ ret' = Ret("save", OkStatus, FALSE)
            /\ lastPersistedLsn_' = Persisted(lsnCounter)
            /\ clean' = TRUE
    /\ acked' = {}
    /\ savedMeta' = metadata_
    /\ snap' = NoSnap
    /\ srch' = NoSearch
    /\ UNCHANGED aux
    /\ UNCHANGED <<loaded, removed, inserted>>
    /\ UNCHANGED <<alive, pIndex_, metadata_, lsnCounter, txidCounter,
                   recoveredFromWal_, pend, okLsn, okTxid>>

\* ------------------------------------------------------------------------
\* End of the process without save
\* ------------------------------------------------------------------------
\* The Collection object is gone, during the call `during` or between two
\* calls ("none"), and leaves `file` as the WAL.
ProcessEnds(file, during) ==
    /\ alive
    /\ srch' = NoSearch
    /\ UNCHANGED aux
    /\ alive' = FALSE
    /\ snap' = [valid |-> TRUE, size |-> IndexSize(pIndex_),
                lsn |-> lsnCounter, txid |-> txidCounter,
                nodes |-> pIndex_.nodes,
                acked |-> acked, clean |-> (clean /\ pend.op = "none"),
                loaded |-> loaded,
                afterSave |-> (ret.op = "save" /\ ret.code = OkStatus),
                meta |-> metadata_, during |-> during,
                recovered |-> recoveredFromWal_]
    /\ walFile' = file
    /\ walDurable' = file
    /\ pIndex_' = EmptyIndex(0)
    /\ metadata_' = NoMetadata
    /\ lsnCounter' = 1
    /\ txidCounter' = 1
    /\ lastPersistedLsn_' = 0
    /\ recoveredFromWal_' = FALSE
    /\ pend' = NoPend
    /\ ret' = Ret("crash", OkStatus, FALSE)
    /\ clean' = (clean /\ pend.op = "none")
    /\ UNCHANGED <<okLsn, okTxid, acked, loaded, savedMeta, removed, inserted>>

\* The process ends between two calls.  What was appended to the WAL
\* without a successful sync is lost or kept (lose).
EndProcess(file) ==
    /\ ProcessEnds(file, "none")
    /\ UNCHANGED <<metaJson, indexBin, metadataJson>>

\* how far a save may have come when the process ends inside it: meta.json
\* is written, then index.bin, then metadata.json, then the WAL is truncated
SaveStages == {"meta", "index", "metadata"}

\* The process ends inside save, after the file `stage` was written and
\* before the next step.
SaveCrash(stage) ==
    /\ Idle
    /\ metaJson' = [exists |-> TRUE,
                    lastPersistedLsn |-> Persisted(lsnCounter),
                    lastPersistedTxid |-> Persisted(txidCounter),
                    cleanShutdown |-> TRUE]
    /\ indexBin' = IF stage = "meta" THEN indexBin
                   ELSE [exists |-> TRUE, nodes |-> pIndex_.nodes,
                         maxElements |-> pIndex_.maxElements]
    /\ metadataJson' = IF stage # "metadata" \/ MetadataEmpty(metadata_)
                       THEN metadataJson
                       ELSE [exists |-> TRUE, map |-> metadata_]
    /\ ProcessEnds(walFile, "save")

Crash(lose) == EndProcess(IF lose THEN walDurable ELSE walFile)

\* the number of interrupted appends whose words lie behind record i
JunkParts(f, i) ==
    IF \E t \in f.junk : t.pos = i
    THEN (CHOOSE t \in f.junk : t.pos = i).parts
    ELSE 0

\* the file with the words ws left behind its record n
AddJunk(f, n, ws) ==
    [f EXCEPT !.junk = {t \in @ : t.pos # n}
                          \cup {[pos |-> n, words |-> JunkWords(f, n) \o ws,
                                  parts |-> JunkParts(f, n) + 1]}]

\* where an append may be cut: inside the fixed fields, or before the last
\* word of the record
TornCuts(words) == {FixedWords - 5, Len(words) - 1}

\* The process ends inside an append: of the records that are in the file
\* and not synced, the first n - Len(walDurable.recs) are complete and the
\* next one is cut after `cut` words.
CrashTorn(n, cut) ==
    /\ Len(walFile.recs) > Len(walDurable.recs)
    /\ walDurable = [walFile EXCEPT
                        !.recs = SubSeq(@, 1, Len(walDurable.recs))]
    /\ n \in Len(walDurable.recs)..(Len(walFile.recs) - 1)
    /\ cut \in TornCuts(WriteEntry(walFile.recs[n + 1]))
    /\ EndProcess(AddJunk([walFile EXCEPT !.recs = SubSeq(@, 1, n)], n,
                          SubSeq(WriteEntry(walFile.recs[n + 1]), 1, cut)))

\* the damage to a record that leaves its header or its payload different
\* from what its CRC was computed over: the type word reads a value outside
\* or inside the range of OperationType, the LSN word or the first payload
\* word (the payload CRC when there is no payload) reads another value
Damages(e) ==
    {[word |-> 1, val |-> kMaxOperationType + 1],
     [word |-> 1, val |-> OpCode("UPDATE")],
     [word |-> 3, val |-> e.lsn + 1],
     [word |-> FixedWords + 1, val |-> WriteEntry(e)[FixedWords + 1] + 1]}

\* Between two processes, one record of an undamaged stored file is damaged.
CorruptRecord(i, d) ==
    /\ ~alive
    /\ i \in 1..Len(walFile.recs)
    /\ d \in Damages(walFile.recs[i])
    /\ walFile.bad = {}
    /\ walFile' = [walFile EXCEPT
                      !.bad = @ \cup {[pos |-> i, word |-> d.word,
                                        val |-> d.val]}]
    /\ walDurable' = walFile'
    /\ ret' = Ret("corrupt", OkStatus, FALSE)
    /\ snap' = NoSnap
    /\ srch' = NoSearch
    /\ UNCHANGED aux
    /\ UNCHANGED <<mem, metaJson, indexBin, metadataJson, hist, loaded, savedMeta,
                   removed, inserted>>

\* ------------------------------------------------------------------------
\* Collection::load and Impl::replayWal
\* ------------------------------------------------------------------------
\* variant: the comparison is the wrong way round
SkipEntryInverted(e, fromLsn) == e.lsn > fromLsn

\* `if (entry.lsn <= fromLsn) continue;`
SkipEntry(e, fromLsn) == e.lsn <= fromLsn

\* the replay loop from entry i on; acc carries the index, the metadata map,
\* maxLsn, maxTxid, replayedCount and the status
RECURSIVE ReplayEntries(_, _, _, _)
ReplayEntries(es, i, fromLsn, acc) ==
    IF i > Len(es) \/ acc.status # OkStatus THEN acc
    ELSE LET e == es[i]
             adv == [acc EXCEPT
                        !.maxLsn = IF e.lsn >= @ THEN e.lsn + 1 ELSE @,
                        !.maxTxid = IF e.txid >= @ THEN e.txid + 1 ELSE @]
         IN
         IF SkipEntry(e, fromLsn) THEN ReplayEntries(es, i + 1, fromLsn, acc)
         ELSE IF e.type = "INSERT"
              THEN LET r == IndexInsert(adv.ix, e.vectorID, e.embedding) IN
                   IF r.res = "true"
                   THEN ReplayEntries(es, i + 1, fromLsn,
                           [adv EXCEPT !.ix = r.ix, !.count = @ + 1])
                   ELSE [adv EXCEPT !.status =
                            IF r.res = Thrown THEN Thrown ELSE kInternal]
         ELSE IF e.type = "DELETE"
              THEN ReplayEntries(es, i + 1, fromLsn,
                      [adv EXCEPT !.ix = IndexMarkDelete(adv.ix, e.vectorID).ix,
                                  !.meta = EraseMetadata(@, e.vectorID),
                                  !.count = @ + 1])
         ELSE ReplayEntries(es, i + 1, fromLsn, adv)

\* Impl::replayWal on the state that load has built so far
ReadErrorToleratedAll(status) == TRUE

\* replayWal: `status.code() == kEof || status.code() == kNotFound` is an
\* empty or missing log, with nothing to replay
ReadErrorTolerated(status) == status \in {kEof, kNotFound}

ReplayWal(f, fromLsn, ix, meta, lsn, txid) ==
    LET all == ReadAll(f)
        start == [status |-> OkStatus, ix |-> ix, meta |-> meta,
                  maxLsn |-> lsn, maxTxid |-> txid, count |-> 0]
    IN
    IF all.status # OkStatus
    THEN IF ReadErrorTolerated(all.status) THEN start
         ELSE [start EXCEPT !.status = all.status]
    ELSE ReplayEntries(all.entries, 1, fromLsn, start)

\* HNSWIndex::loadIndex: a new hnswlib graph read from index.bin, with no
\* capacity argument: the library takes the capacity stored in the file
\* when the file holds elements, and its argument's default, 0, otherwise
LoadedCapacity(bin) ==
    IF \A i \in Ids : bin.nodes[i].st = "absent" THEN 0 ELSE bin.maxElements

LoadIndex(bin) ==
    [nodes |-> bin.nodes, ef |-> DefaultEf, maxElements |-> LoadedCapacity(bin)]

\* `if (replayedCount > 0) recoveredFromWal_ = true;`
RecoveredAnyLog(count) == count >= 0

Recovered(count) == count > 0

\* the ids of the elements index.bin holds, tombstones included
StoredIds(bin) == {i \in Ids : bin.nodes[i].st # "absent"}

\* the ids of the INSERT entries the replay applies
ReplayedIds(es, fromLsn) ==
    {es[j].vectorID : j \in {n \in 1..Len(es) :
                                /\ es[n].type = "INSERT"
                                /\ ~SkipEntry(es[n], fromLsn)}}

\* initializeWal: a db.wal that does not exist gets a header, written with
\* outcome w; the status of the write is dropped
InitializeWal(f, w) ==
    IF f.gone /\ w # "open_fail" THEN HeaderOnly ELSE f

InitializeWalDurable(f, d, w) ==
    IF f.gone /\ w = "ok" THEN HeaderOnly ELSE d

LoadFrom(wal) ==
    /\ ~alive
    /\ snap' = snap
    /\ srch' = NoSearch
    /\ UNCHANGED aux
    /\ UNCHANGED <<pend, metaJson, indexBin, metadataJson, okLsn, okTxid,
                   removed>>
    /\ walFile' = wal
    /\ IF ~metaJson.exists \/ ~indexBin.exists
       THEN /\ ret' = Ret("load", kNotFound, FALSE)
            /\ UNCHANGED <<alive, pIndex_, metadata_, lsnCounter, txidCounter,
                           lastPersistedLsn_, recoveredFromWal_, acked, clean,
                           loaded, savedMeta, inserted>>
       ELSE LET r == ReplayWal(wal, metaJson.lastPersistedLsn,
                              LoadIndex(indexBin),
                              IF metadataJson.exists THEN metadataJson.map
                              ELSE NoMetadata,
                              metaJson.lastPersistedLsn + 1,
                              metaJson.lastPersistedTxid + 1)
            IN
            IF r.status # OkStatus
            THEN /\ ret' = Ret("load", r.status, FALSE)
                 /\ UNCHANGED <<alive, pIndex_, metadata_, lsnCounter,
                                txidCounter, lastPersistedLsn_,
                                recoveredFromWal_, acked, clean, loaded, savedMeta,
                                inserted>>
            ELSE /\ ret' = Ret("load", OkStatus, FALSE)
                 /\ alive' = TRUE
                 /\ pIndex_' = r.ix
                 /\ metadata_' = r.meta
                 /\ lsnCounter' = r.maxLsn
                 /\ txidCounter' = r.maxTxid
                 /\ lastPersistedLsn_' = metaJson.lastPersistedLsn
                 /\ recoveredFromWal_' = Recovered(r.count)
                 /\ acked' = {}
                 /\ clean' = TRUE
                 /\ loaded' = TRUE
                 /\ savedMeta' = savedMeta
                 /\ inserted' = StoredIds(indexBin)
                                   \cup ReplayedIds(ReadAll(wal).entries,
                                                    metaJson.lastPersistedLsn)

\* Collection::load: meta.json is checked first, the Impl is constructed
\* (initializeWal) before index.bin is looked for
Load ==
    \E w \in WalOutcomes :
        /\ walDurable' = IF metaJson.exists
                         THEN InitializeWalDurable(walFile, walDurable, w)
                         ELSE walDurable
        /\ LoadFrom(IF metaJson.exists THEN InitializeWal(walFile, w)
                    ELSE walFile)

\* ------------------------------------------------------------------------
\* Specifications
\* ------------------------------------------------------------------------
\* a run is cut off where its next call would take the LSN counter past
\* l + 1 or the WAL file past m records: n more records still fit
Room(l, m, n) ==
    /\ lsnCounter + n <= l + 1
    /\ Len(walFile.recs) + n <= m

\* the records an insert of vec appends
InsertRecords(vec) == IF ValidDimension(vec) THEN 1 ELSE 0

\* the records an insertBatch of batch appends
BatchRecords(batch) == Len(BuildEntries(batch, 1, lsnCounter, txidCounter))

\* the mutations, with single vectors drawn from V and batches from B
Mutate(V, B) ==
    \/ \E id \in Ids, vec \in V, w \in WalOutcomes :
            Room(MaxLsn, MaxWal, InsertRecords(vec)) /\ InsertCall(id, vec, w)
    \/ InsertApply
    \/ \E id \in Ids, w \in WalOutcomes :
            Room(MaxLsn, MaxWal, 1) /\ RemoveCall(id, w)
    \/ RemoveApply
    \/ \E batch \in B, w \in WalOutcomes :
            Room(MaxLsn, MaxWal, BatchRecords(batch)) /\ InsertBatchCall(batch, w)
    \/ InsertBatchApply

\* one vector of the collection's dimension
OneVec == {<<1, 0>>}

\* one good and one bad vector
FewVecs == OneVec \cup BadVecs

\* the batches in which every pair is valid and there is at least one
ValidBatches == Batches(OneVec) \ {<<>>}

\* mutations, checkpoints, process ends and restarts
Next ==
    \/ Mutate(OneVec, ValidBatches)
    \/ \E w \in WalOutcomes : Save(w)
    \/ \E lose \in BOOLEAN : Crash(lose)
    \/ Load

Spec == Init /\ [][Next]_vars

\* one process: single mutations, metadata and searches on a live collection
NextLive ==
    \/ \E id \in Ids, vec \in Vecs, w \in WalOutcomes :
            Room(MaxLsn, MaxWal, InsertRecords(vec)) /\ InsertCall(id, vec, w)
    \/ InsertApply
    \/ \E id \in Ids, w \in WalOutcomes :
            Room(MaxLsn, MaxWal, 1) /\ RemoveCall(id, w)
    \/ RemoveApply
    \/ \E id \in Ids, m \in MetaVals : SetMetadata(id, m)
    \/ \E q \in Vecs, k \in KVals, ef \in EfVals : Search(q, k, ef)

SpecLive == Init /\ [][NextLive]_vars

\* one process: single and batch mutations, batches with invalid pairs too
NextBatch == Mutate(FewVecs, Batches(FewVecs))

SpecBatch == Init /\ [][NextBatch]_vars

\* WAL::log with reset = false in every call: the mode is ignored
WalLogAppending(f, e, reset, w) == WalAppend(f, <<e>>, w)

\* WAL::log(entry, path, reset): opens the file in append mode, or in
\* truncate mode and with a fresh header when reset; then the one record
WalLog(f, e, reset, w) ==
    IF reset THEN WalAppend(WalTruncate(f, w), <<e>>, w)
    ELSE WalAppend(f, <<e>>, w)

\* what the calls of one WAL object have written since its last reset or
\* truncate: an entry counts from the moment its record is in the file
LoggedAfter(old, es, reset, w) ==
    IF w = "open_fail" THEN old
    ELSE IF reset THEN es ELSE old \o es

\* the entries handed to the WAL object on its own
WalEntries ==
    {Entry("INSERT", l, l, id, <<1, 0>>) : l \in 1..MaxLsn, id \in {1}}
        \cup {Entry("DELETE", l, l, id, <<>>) : l \in 1..MaxLsn, id \in {1}}

\* wal.log(entry, "", reset)
LogCall(e, reset, w) ==
    /\ reset \/ Len(walFile.recs) < MaxWal
    /\ walFile' = WalLog(walFile, e, reset, w)
    /\ walDurable' = IF w = "ok" THEN walFile' ELSE walDurable
    /\ logged' = LoggedAfter(logged, <<e>>, reset, w)
    /\ ret' = Ret("log", WalStatus(w), FALSE)
    /\ snap' = NoSnap
    /\ UNCHANGED <<mem, metaJson, indexBin, metadataJson, hist, loaded, savedMeta,
                   removed, inserted, codec, metric, db, calls, opts, dirD,
                   srch>>

\* wal.truncate()
TruncateCall(w) ==
    /\ walFile' = WalTruncate(walFile, w)
    /\ walDurable' = WalTruncateDurable(walFile, walDurable, w)
    /\ logged' = LoggedAfter(logged, <<>>, TRUE, w)
    /\ ret' = Ret("truncate", WalStatus(w), FALSE)
    /\ snap' = NoSnap
    /\ UNCHANGED <<mem, metaJson, indexBin, metadataJson, hist, loaded, savedMeta,
                   removed, inserted, codec, metric, db, calls, opts, dirD,
                   srch>>

\* wal.readAll(): the result carries the status and the entries
ReadAllCall ==
    /\ ret' = [Ret("readAll", ReadAll(walFile).status, FALSE)
                 EXCEPT !.results = ReadAll(walFile).entries]
    /\ snap' = NoSnap
    /\ UNCHANGED <<mem, disk, hist, loaded, savedMeta, removed, inserted, other>>

\* the WAL object on its own, as its tests drive it
NextWal ==
    \/ \E e \in WalEntries, reset \in BOOLEAN, w \in WalOutcomes :
            LogCall(e, reset, w)
    \/ \E w \in WalOutcomes : TruncateCall(w)
    \/ ReadAllCall

SpecWal == Init /\ [][NextWal]_vars

\* values a caller may leave in the computed fields of an entry
StaleVals == {0, 99}

\* embeddings of the entries handed to the codec
CodecVecs == {<<>>, <<1>>, <<1, 0>>, <<2, 2>>}

\* the entries handed to the codec: every type, embeddings of length 0 to
\* 2, a dimension that is the embedding's length or one more, and any
\* values in headerCRC, payloadLength and payloadCRC
CodecEntries ==
    {[Entry(OpNames[c], l, l, 1, v) EXCEPT
         !.dimension = d, !.headerCRC = h, !.payloadLength = n,
         !.payloadCRC = p] :
       c \in kMinOperationType..kMaxOperationType, l \in 1..MaxLsn,
       v \in CodecVecs, d \in {0, 1, 2, 3}, h \in StaleVals,
       n \in StaleVals, p \in StaleVals}

\* wal::WriteEntry(e, writer) into an empty file
WriteCall(e) ==
    /\ e.dimension \in {Len(e.embedding), Len(e.embedding) + 1}
    /\ codec' = [pc |-> "written", e |-> e, bytes |-> WriteEntry(e),
                 out |-> <<>>]
    /\ ret' = Ret("WriteEntry", OkStatus, FALSE)
    /\ snap' = NoSnap
    /\ UNCHANGED <<mem, disk, hist, loaded, savedMeta, removed, inserted, logged, metric, db, calls, opts, dirD,
                   srch>>

\* wal::ParseEntry(reader) on the file WriteEntry wrote
ParseCall ==
    /\ codec.pc = "written"
    /\ codec' = [codec EXCEPT !.pc = "parsed", !.out = ParseEntry(codec.bytes)]
    /\ ret' = Ret("ParseEntry", ParseEntry(codec.bytes).status, FALSE)
    /\ snap' = NoSnap
    /\ UNCHANGED <<mem, disk, hist, loaded, savedMeta, removed, inserted, logged, metric, db, calls, opts, dirD,
                   srch>>

\* the codec on its own, as its tests drive it
NextCodec ==
    \/ \E e \in CodecEntries : WriteCall(e)
    \/ ParseCall

SpecCodec == Init /\ [][NextCodec]_vars

\* std::thread::hardware_concurrency(): unknown (0), or 2 or 3 threads
HwVals == {0, 2, 3}

\* query i of a batch: the two unit vectors in turn
QueryAt(i) == IF i % 2 = 1 THEN <<1, 0>> ELSE <<0, 1>>

\* the batches of up to MaxQueries queries: all of the collection's
\* dimension, or all but the first, or all but the last
QueryBatches ==
    UNION {{[i \in 1..n |-> IF i = p THEN <<1>> ELSE QueryAt(i)] :
               p \in {0, 1, n}} : n \in 0..MaxQueries}

\* a collection of any metric
InitSearch == InitWith(Metrics)

\* one process: inserts and removes that reach the log, and searches; a
\* searchBatch call blocks its caller until it returns
NextSearch ==
    \/ \E id \in Ids : Room(MaxLsn, MaxWal, 1) /\ InsertCall(id, QueryAt(id), "ok")
    \/ InsertApply
    \/ \E id \in Ids : Room(MaxLsn, MaxWal, 1) /\ RemoveCall(id, "ok")
    \/ RemoveApply
    \/ \E q \in Vecs, k \in KVals : Search(q, k, 20)
    \/ \E q \in Vecs, k \in KVals : Query(q, k, DefaultEf)
    \/ \E qs \in QueryBatches, k \in KVals, hw \in HwVals :
            SearchBatchCall(qs, k, 20, hw)
    \/ \E t \in 1..MaxThreads : WorkerStep(t)
    \/ SearchBatchReturn

SpecSearch == InitSearch /\ [][NextSearch]_vars

\* the positions at which a record may be damaged
RecPositions == 1..MaxWal

\* the numbers of complete records and the cuts of a torn append
TornPositions == 0..MaxWal
CutPositions == 1..(FixedWords + Dim)

\* the one batch of the fault runs: two valid pairs
TwoBatch == {<<[id |-> 1, vec |-> <<1, 0>>], [id |-> 2, vec |-> <<1, 0>>]>>}

\* the appends that reach the file: synced, or written and not synced
Written == {"ok", "sync_fail"}

\* inserts, checkpoints, processes that end (also inside an append), files
\* that are damaged while no process holds them, and restarts
NextFault ==
    \/ \E id \in Ids, vec \in OneVec, w \in Written :
            Room(MaxLsn, MaxWal, 1) /\ InsertCall(id, vec, w)
    \/ InsertApply
    \/ \E batch \in TwoBatch, w \in Written :
            Room(MaxLsn, MaxWal, BatchRecords(batch)) /\ InsertBatchCall(batch, w)
    \/ InsertBatchApply
    \/ Save("ok")
    \/ \E lose \in BOOLEAN : Crash(lose)
    \/ \E n \in TornPositions, cut \in CutPositions : CrashTorn(n, cut)
    \/ \E i \in RecPositions, w \in 1..(FixedWords + 1), v \in 0..(MaxLsn + 6) :
            CorruptRecord(i, [word |-> w, val |-> v])
    \/ Load

SpecFault == Init /\ [][NextFault]_vars

\* two-pair batches over the ids
PairBatches == {<<[id |-> a, vec |-> <<1, 0>>], [id |-> b, vec |-> <<1, 0>>]>> :
                    a \in Ids, b \in Ids}

\* a longer run of one process line: inserts, removes, two-pair batches whose
\* append may fail after the write, checkpoints that may fail, process ends
\* and restarts.  One more LSN and one more WAL record than the other runs.
NextStale ==
    \/ \E id \in Ids, vec \in OneVec :
            Room(MaxLsn + 1, MaxWal + 1, 1) /\ InsertCall(id, vec, "ok")
    \/ InsertApply
    \/ \E id \in Ids :
            Room(MaxLsn + 1, MaxWal + 1, 1) /\ RemoveCall(id, "ok")
    \/ RemoveApply
    \/ \E batch \in PairBatches, w \in Written :
            Room(MaxLsn + 1, MaxWal + 1, BatchRecords(batch))
                /\ InsertBatchCall(batch, w)
    \/ InsertBatchApply
    \/ \E w \in WalOutcomes : Save(w)
    \/ Crash(FALSE)
    \/ Load

SpecStale == Init /\ [][NextStale]_vars

\* inserts, removes and metadata between checkpoints, process ends and
\* restarts
NextMeta ==
    \/ \E id \in Ids, vec \in OneVec :
            Room(MaxLsn, MaxWal, 1) /\ InsertCall(id, vec, "ok")
    \/ InsertApply
    \/ \E id \in Ids : Room(MaxLsn, MaxWal, 1) /\ RemoveCall(id, "ok")
    \/ RemoveApply
    \/ \E id \in Ids, m \in MetaVals : SetMetadata(id, m)
    \/ \E w \in WalOutcomes : Save(w)
    \/ Crash(FALSE)
    \/ Load

SpecMeta == Init /\ [][NextMeta]_vars

\* mutations and checkpoints that all succeed, processes that end between
\* two calls or inside save, and restarts
NextSaveCrash ==
    \/ \E id \in Ids, vec \in OneVec :
            Room(MaxLsn, MaxWal, 1) /\ InsertCall(id, vec, "ok")
    \/ InsertApply
    \/ \E id \in Ids : Room(MaxLsn, MaxWal, 1) /\ RemoveCall(id, "ok")
    \/ RemoveApply
    \/ Save("ok")
    \/ \E stage \in SaveStages : SaveCrash(stage)
    \/ Crash(FALSE)
    \/ Load

SpecSaveCrash == Init /\ [][NextSaveCrash]_vars

\* entries of every kind a WAL file may hold for id 1: the two kinds the
\* Collection logs, and two of the kinds reserved for later use
ForeignTypes == {"INSERT", "DELETE", "UPDATE", "COMMIT_TXN"}

ForeignEntries ==
    {Entry(t, l, l, 1, IF t \in {"INSERT", "UPDATE"} THEN <<0, 1>> ELSE <<>>) :
        t \in ForeignTypes, l \in {1, MaxLsn}}

\* between two processes another writer appends an entry to the WAL of a
\* saved collection through WAL::log
ForeignLog(e) ==
    /\ ~alive
    /\ metaJson.exists
    /\ Len(walFile.recs) < MaxWal
    /\ walFile' = WalAppend(walFile, <<e>>, "ok")
    /\ walDurable' = walFile'
    /\ ret' = Ret("log", OkStatus, FALSE)
    /\ snap' = NoSnap
    /\ srch' = NoSearch
    /\ UNCHANGED aux
    /\ UNCHANGED <<mem, metaJson, indexBin, metadataJson, hist, loaded,
                   savedMeta, removed, inserted>>

\* the Collection's own inserts, metadata and checkpoints, and restarts on
\* a WAL that holds entries of any kind and in any order of LSN
NextReplay ==
    \/ \E id \in Ids, vec \in OneVec :
            Room(MaxLsn, MaxWal, 1) /\ InsertCall(id, vec, "ok")
    \/ InsertApply
    \/ \E m \in MetaVals : SetMetadata(1, m)
    \/ Save("ok")
    \/ Crash(FALSE)
    \/ \E e \in ForeignEntries : ForeignLog(e)
    \/ Load

SpecReplay == Init /\ [][NextReplay]_vars

\* ------------------------------------------------------------------------
\* ArrowDB: the registry of collections under data_dir
\* ------------------------------------------------------------------------
\* A subdirectory of data_dir is not there ("none"), holds only the WAL of a
\* Collection that was never saved ("wal"), or holds meta.json and index.bin
\* ("saved").

\* `collections_.count(name) > 0`, `collections_.find(name) != end()`
Registered(cs, name) == name \in cs

\* variant: the entry stays in the map
DropFromKept(cs, name) == cs

\* `collections_.erase(it)`
DropFrom(cs, name) == cs \ {name}

\* a call of the registry changes nothing but db
DbFrame == UNCHANGED <<mem, ret, disk, hist, loaded, savedMeta, removed,
                       inserted, snap, logged, codec, metric, calls, opts,
                       dirD,
                       srch>>

\* createCollection(name, config): the Collection is constructed on
\* data_dir/name, where its constructor writes the WAL
CreateCollection(name) ==
    /\ db.open
    /\ DbFrame
    /\ IF Registered(db.collections_, name)
       THEN db' = [db EXCEPT !.ret = DbRet("createCollection", name,
                                           kAlreadyExists)]
       ELSE db' = [db EXCEPT
                      !.collections_ = @ \cup {name},
                      !.dirs[name] = IF @ = "none" THEN "wal" ELSE @,
                      !.made = @ \cup {name},
                      !.kept = @ \cup {name},
                      !.ret = DbRet("createCollection", name, OkStatus)]

GetCollection(name) ==
    /\ db.open
    /\ DbFrame
    /\ db' = [db EXCEPT !.ret = DbRet("getCollection", name,
                                      IF Registered(db.collections_, name)
                                      THEN OkStatus ELSE kNotFound)]

\* dropCollection(name): close, erase, remove the directory
DropCollection(name) ==
    /\ db.open
    /\ DbFrame
    /\ IF ~Registered(db.collections_, name)
       THEN db' = [db EXCEPT !.ret = DbRet("dropCollection", name, kNotFound)]
       ELSE db' = [db EXCEPT
                      !.collections_ = DropFrom(@, name),
                      !.dirs[name] = "none",
                      !.made = @ \ {name},
                      !.kept = @ \ {name},
                      !.ret = DbRet("dropCollection", name, OkStatus)]

HasCollection(name) ==
    /\ db.open
    /\ DbFrame
    /\ db' = [db EXCEPT !.ret = DbRet("hasCollection", name,
                                      IF Registered(db.collections_, name)
                                      THEN "true" ELSE "false")]

\* the directories after each Collection of cs was closed (Collection::close
\* is save, which writes meta.json and index.bin before its checkpoint)
ClosedDirs(dirs, cs) == [n \in Names |-> IF n \in cs THEN "saved" ELSE dirs[n]]

\* close(): closes the collections in the order of the map; the first close
\* that fails (`failed`, after those of `done`) ends the call with its
\* status, otherwise the map is cleared
DbClose(done, failed) ==
    /\ db.open
    /\ DbFrame
    /\ failed \subseteq db.collections_
    /\ Cardinality(failed) <= 1
    /\ done \subseteq db.collections_ \ failed
    /\ failed = {} => done = db.collections_
    /\ IF failed # {}
       THEN db' = [db EXCEPT !.dirs = ClosedDirs(@, done \cup failed),
                             !.ret = DbRet("close", "", kIoError)]
       ELSE db' = [db EXCEPT !.dirs = ClosedDirs(@, done),
                             !.collections_ = {},
                             !.kept = {},
                             !.ret = DbRet("close", "", OkStatus)]

\* the ArrowDB object goes away: ~Impl closes every collection and drops the
\* statuses (graceful), or the process ends and nothing is closed
DbEnd(graceful) ==
    /\ db.open
    /\ DbFrame
    /\ db' = [db EXCEPT
                  !.open = FALSE,
                  !.dirs = IF graceful THEN ClosedDirs(@, db.collections_)
                           ELSE @,
                  !.collections_ = {},
                  !.made = {},
                  !.kept = {},
                  !.ret = DbRet("end", "", OkStatus)]

\* ArrowDB(options) on the data_dir: loadExistingCollections registers the
\* subdirectories that hold meta.json and whose Collection::load is ok
\* (those of `ok`)
DbOpen(ok) ==
    /\ ~db.open
    /\ DbFrame
    /\ ok \subseteq {n \in Names : db.dirs[n] = "saved"}
    /\ db' = [db EXCEPT !.open = TRUE,
                        !.collections_ = ok,
                        !.made = ok,
                        !.kept = ok,
                        !.ret = DbRet("construct", "", OkStatus)]

NextDb ==
    \/ \E name \in Names : CreateCollection(name)
    \/ \E name \in Names : GetCollection(name)
    \/ \E name \in Names : DropCollection(name)
    \/ \E name \in Names : HasCollection(name)
    \/ \E done \in SUBSET Names, failed \in SUBSET Names : DbClose(done, failed)
    \/ \E graceful \in BOOLEAN : DbEnd(graceful)
    \/ \E ok \in SUBSET Names : DbOpen(ok)

SpecDb == Init /\ [][NextDb]_vars

\* ------------------------------------------------------------------------
\* Properties
\* ------------------------------------------------------------------------
MutOps == {"insert", "insertBatch", "remove"}

Range(seq) == {seq[i] : i \in 1..Len(seq)}

\* the pairs of a batch whose vector has the collection's dimension
ValidPairs(batch) == SelectSeq(batch, LAMBDA p : Len(p.vec) = Dim)

\* C1: a mutation goes past its WAL append only when its entries are on
\* stable storage; the index and the metadata map change for a mutation only
\* while it holds such entries; a mutation that returns the error of the
\* append leaves the index and the metadata map as they were.
LogBeforeApply ==
    [][ret'.op \in MutOps =>
          /\ pend'.op # "none" =>
                 Range(pend'.entries) \subseteq Range(walDurable'.recs)
          /\ (pIndex_' # pIndex_ \/ metadata_' # metadata_) =>
                 /\ pend.op # "none"
                 /\ Range(pend.entries) \subseteq Range(walDurable.recs)
          /\ ret'.code = kIoError =>
                 /\ pIndex_' = pIndex_
                 /\ metadata_' = metadata_
                 /\ pend' = NoPend]_vars

\* a mutation of a non-empty collection returned the error of its append and
\* the record that was written is not known to be on stable storage
WitnessLogBeforeApply ==
    /\ ret.op \in MutOps
    /\ ret.code = kIoError
    /\ IndexSize(pIndex_) > 0
    /\ Len(walFile.recs) > Len(walDurable.recs)

\* the ids a search for vector q returns when it asks for every element
Found(ix, q) == HitIds(IndexSearch(ix, q, Cardinality(Ids), DefaultEf).hits)

\* e is the last entry of its id in es
LastOfId(e, es) == \A o \in es : o.vectorID = e.vectorID => o.lsn <= e.lsn

LsnOrder ==
    [][(ret'.op \in MutOps /\ ret'.code = OkStatus /\ pend.op # "none") =>
          LET es == pend.entries IN
          \A j \in 1..Len(es) :
              /\ es[j].lsn > okLsn
              /\ es[j].txid > okTxid
              /\ j > 1 => /\ es[j - 1].lsn < es[j].lsn
                          /\ es[j - 1].txid < es[j].txid]_vars

\* a mutation returned Ok on a loaded Collection whose saved state holds an
\* earlier one, after a failed call
WitnessLsnOrder ==
    /\ loaded
    /\ okLsn = 2
    /\ acked # {}
    /\ metaJson.lastPersistedLsn = 1
    /\ indexBin.nodes # NoNodes

\* C5: load right after a successful save returns a Collection that did not
\* recover from the WAL and has the size and the counters of the saved one,
\* which are lastPersistedLsn + 1 and lastPersistedTxid + 1.
SaveThenLoad ==
    (ret.op = "load" /\ snap.valid /\ snap.afterSave) =>
        /\ ret.code = OkStatus
        /\ alive
        /\ ~recoveredFromWal_
        /\ IndexSize(pIndex_) = snap.size
        /\ lsnCounter = snap.lsn
        /\ txidCounter = snap.txid
        /\ lsnCounter = metaJson.lastPersistedLsn + 1
        /\ txidCounter = metaJson.lastPersistedTxid + 1

WitnessSaveThenLoad ==
    /\ ret.op = "load"
    /\ snap.valid /\ snap.afterSave
    /\ IndexSize(pIndex_) = 2
    /\ lsnCounter = 3

\* C6: right after save returns Ok, readAll on the WAL returns Ok and no
\* entry, and loadHeader returns a header with the magic number.
SaveTruncatesWal ==
    (ret.op = "save" /\ ret.code = OkStatus) =>
        /\ ReadAll(walFile) = [status |-> OkStatus, entries |-> <<>>]
        /\ LoadHeader(walFile) = [status |-> OkStatus, magic |-> kWalMagic]

\* a save of a collection whose mutations had been logged
WitnessSaveTruncatesWal ==
    /\ ret.op = "save"
    /\ ret.code = OkStatus
    /\ okLsn = 2
    /\ lastPersistedLsn_ = 2

\* C7: insert with a vector of the wrong length returns DimensionMismatch
\* and leaves size(), currentLsn(), currentTxid(), the metadata map and the
\* WAL as they were.
BadInsertChangesNothing ==
    [][(ret'.op = "insert" /\ ret'.bad) =>
          /\ ret'.code = kDimensionMismatch
          /\ UNCHANGED <<pIndex_, metadata_, lsnCounter, txidCounter,
                         walFile, walDurable>>]_vars

WitnessBadInsert ==
    /\ ret.op = "insert"
    /\ ret.bad
    /\ ret.code = kDimensionMismatch
    /\ IndexSize(pIndex_) > 0
    /\ walFile.recs # <<>>

\* C8: search with a query of the wrong length returns DimensionMismatch as
\* a status and changes nothing in the collection or the index.
BadSearchReturnsStatus ==
    [][(ret'.op = "search" /\ ret'.bad) =>
          /\ ret'.code = kDimensionMismatch
          /\ UNCHANGED <<mem, disk>>]_vars

\* C9: an insertBatch whose append succeeds extends the WAL by one INSERT
\* entry per pair of the right length, in input order, with consecutive
\* LSNs and TXIDs from the values before the call; the counters advance by
\* the number of those pairs only.
BatchLogsValidPairs ==
    [][(pend.op = "none" /\ ret'.op = "insertBatch"
            /\ ret'.code \in {Running, OkStatus}) =>
          LET batch == IF pend'.op = "insertBatch" THEN pend'.batch
                       ELSE ret'.batch
              valid == ValidPairs(batch)
              n == Len(valid)
              old == Len(walFile.recs)
          IN
          /\ Len(walFile'.recs) = old + n
          /\ SubSeq(walFile'.recs, 1, old) = walFile.recs
          /\ \A j \in 1..n :
                 walFile'.recs[old + j] =
                     Entry("INSERT", lsnCounter + j - 1, txidCounter + j - 1,
                           valid[j].id, valid[j].vec)
          /\ lsnCounter' = lsnCounter + n
          /\ txidCounter' = txidCounter + n]_vars

\* a logged batch in which a pair of the wrong length precedes a valid one
WitnessBatchLogs ==
    /\ pend.op = "insertBatch"
    /\ Len(pend.batch) = 2
    /\ Len(pend.batch[1].vec) # Dim
    /\ Len(pend.entries) = 1
    /\ pend.entries[1] \in Range(walFile.recs)

\* C10: the result of insertBatch has one element per pair, in input order
\* and with the pair's id; the two counts add up to the batch size; a pair
\* of the wrong length is DimensionMismatch, the others are Ok and in the
\* index; successCount counts the Ok results.
BatchResultShape ==
    (ret.op = "insertBatch" /\ ret.code = OkStatus) =>
        LET b == ret.batch
            r == ret.results
        IN
        /\ Len(r) = Len(b)
        /\ \A i \in 1..Len(b) :
               /\ r[i].id = b[i].id
               /\ Len(b[i].vec) # Dim => r[i].status = kDimensionMismatch
               /\ Len(b[i].vec) = Dim =>
                      /\ r[i].status = OkStatus
                      /\ pIndex_.nodes[b[i].id] = LiveNode(b[i].vec)
        /\ ret.successCount + ret.failureCount = Len(b)
        /\ ret.successCount =
               Cardinality({i \in 1..Len(r) : r[i].status = OkStatus})

\* a batch came back with one inserted and one rejected pair
WitnessBatchResult ==
    /\ ret.op = "insertBatch"
    /\ ret.code = OkStatus
    /\ ret.successCount = 1
    /\ ret.failureCount = 1

\* C11: an insertBatch that returns the error of its append has applied no
\* vector, leaves the counters at their values before the call and leaves no
\* entry of the batch in the WAL file, so that no two records of the file
\* ever carry the same LSN.
FailedBatchLeavesNoEntry ==
    [][(ret'.op = "insertBatch" /\ ret'.code = kIoError) =>
          /\ pIndex_' = pIndex_
          /\ lsnCounter' = lsnCounter
          /\ txidCounter' = txidCounter
          /\ walFile' = walFile
          /\ \A i, j \in 1..Len(walFile'.recs) :
                 walFile'.recs[i].lsn = walFile'.recs[j].lsn => i = j]_vars

\* C12: an id whose remove returned Ok is in no search result, for any
\* query and any k, until an insert of the id is logged: in the Collection
\* that removed it, in the Collection a later load returns after a save, and
\* in the Collection load returns after the end of the process, where the
\* DELETE entry is replayed.  The records a failed insertBatch left in the
\* file before the remove are not inserts after it.
RemovedNotFound ==
    alive =>
        \A id \in removed, q \in GoodVecs, k \in KVals, ef \in EfVals :
            id \notin HitIds(IndexSearch(pIndex_, q, k, ef).hits)

\* a stored log with its header and one damaged record, behind a checkpoint
DamagedWal ==
    /\ metaJson.exists /\ indexBin.exists
    /\ walFile.hdr /\ walFile.junk = {}
    /\ walFile.bad # {}

\* C13 (as claimed): when an entry of the WAL no longer matches its header or
\* payload CRC, load returns ChecksumMismatch and no Collection.
DamagedEntryChecksumMismatch ==
    (ret.op = "load" /\ DamagedWal) =>
        ret.code = kChecksumMismatch /\ ~alive

\* C13 (amended): when an entry of the WAL no longer matches its header or
\* payload CRC, load returns no Collection; it returns BadRecord when the
\* damaged type is outside 1..6 and ChecksumMismatch otherwise, wherever
\* the entry is.
DamagedEntryFailsLoad ==
    (ret.op = "load" /\ DamagedWal) =>
        /\ ~alive
        /\ ret.code =
             IF \E d \in walFile.bad :
                    /\ d.word = 1
                    /\ d.val \notin kMinOperationType..kMaxOperationType
             THEN kBadRecord ELSE kChecksumMismatch

WitnessDamagedEntryFailsLoad ==
    /\ ret.op = "load" /\ DamagedWal
    /\ ret.code = kChecksumMismatch
    /\ Len(walFile.recs) = 2
    /\ \E d \in walFile.bad : d.pos = 1 /\ d.word = FixedWords + 1
    /\ walFile.recs[1].lsn > metaJson.lastPersistedLsn

\* a stored log that ends with the words of an interrupted append, behind a
\* checkpoint
TornWal ==
    /\ metaJson.exists /\ indexBin.exists
    /\ walFile.hdr /\ walFile.bad = {}
    /\ walFile.junk # {}
    /\ \A t \in walFile.junk : t.pos = Len(walFile.recs) /\ t.parts = 1

\* C14: when the file ends with the incomplete record of an interrupted
\* append behind complete valid entries, load succeeds, replays every
\* complete entry and discards the partial record.
TornTailRecovered ==
    (ret.op = "load" /\ TornWal) =>
        LET r == ReplayEntries(walFile.recs, 1, metaJson.lastPersistedLsn,
                     [status |-> OkStatus, ix |-> LoadIndex(indexBin),
                      meta |-> IF metadataJson.exists THEN metadataJson.map
                               ELSE NoMetadata,
                      maxLsn |-> metaJson.lastPersistedLsn + 1,
                      maxTxid |-> metaJson.lastPersistedTxid + 1,
                      count |-> 0])
        IN /\ ret.code = OkStatus
           /\ alive
           /\ pIndex_ = r.ix
           /\ lsnCounter = r.maxLsn

WriteParseRoundTrip ==
    (/\ codec.pc = "parsed"
     /\ OpCode(codec.e.type) \in kMinOperationType..kMaxOperationType
     /\ codec.e.dimension = Len(codec.e.embedding)
     /\ codec.e.dimension <= kMaxDimension) =>
        /\ codec.out.status = OkStatus
        /\ \A fld \in {"type", "lsn", "txid", "vectorID", "dimension",
                        "embedding"} :
               codec.out.entry[fld] = codec.e[fld]
        /\ codec.out.entry.headerCRC =
               HeaderCrcOf(OpCode(codec.out.entry.type),
                           codec.out.entry.version, codec.out.entry.lsn,
                           codec.out.entry.txid)
        /\ codec.out.entry.payloadCRC = PayloadCrcOf(codec.out.entry.embedding)

WitnessWriteParseRoundTrip ==
    /\ codec.pc = "parsed"
    /\ codec.out.status = OkStatus
    /\ codec.e.type = "BATCH_INSERT"
    /\ codec.e.embedding = <<2, 2>>
    /\ codec.e.headerCRC = 99 /\ codec.e.payloadCRC = 99
    /\ codec.e.payloadLength = 0
    /\ codec.out.entry.payloadCRC # 99

\* C17: searchBatch over n queries of the right length returns n lists, list
\* i being what search returns for query i; every index is processed by
\* exactly one worker, the workers' ranges are contiguous, disjoint and
\* cover 0..n-1, no slot is written twice, and the call returns only after
\* every worker has finished.
SearchBatchResults ==
    /\ srch.op = "searchBatch" =>
           \A i \in 1..Len(srch.writers) : Len(srch.writers[i]) <= 1
    /\ (srch.op = "searchBatch" /\ srch.pc = "done" /\ ret.code = OkStatus) =>
           LET n == Len(srch.queries)
               w == srch.workers
           IN
           /\ Len(srch.results) = n
           /\ \A i \in 1..n :
                  srch.results[i] =
                      IndexSearch(pIndex_, srch.queries[i], srch.k, srch.ef).hits
           /\ Joined(w)
           /\ \A t \in 1..Len(w) :
                  /\ w[t].start < w[t].end
                  /\ w[t].start = IF t = 1 THEN 0 ELSE w[t - 1].end
           /\ w # <<>> => w[Len(w)].end = n
           /\ \A i \in 1..n :
                  IF w = <<>> THEN srch.writers[i] = <<0>>
                  ELSE \E t \in 1..Len(w) :
                          /\ srch.writers[i] = <<t>>
                          /\ w[t].start <= i - 1 /\ i - 1 < w[t].end

WitnessSearchBatchResults ==
    /\ srch.op = "searchBatch" /\ srch.pc = "done" /\ ret.code = OkStatus
    /\ Len(srch.queries) = 3
    /\ Len(srch.workers) = 2
    /\ srch.workers[2].start = 2 /\ srch.workers[2].end = 3
    /\ srch.results[1] # <<>>
    /\ srch.results[1] # srch.results[2]

\* C18: searchBatch returns DimensionMismatch when any query has a wrong
\* length, wherever it is in the batch: no query is searched and no worker
\* is started.
BadQueryRejectsBatch ==
    [][(/\ srch'.op = "searchBatch"
        /\ \E i \in 1..Len(srch'.queries) : Len(srch'.queries[i]) # Dim) =>
          /\ ret'.code = kDimensionMismatch
          /\ srch'.pc = "done"
          /\ srch'.workers = <<>>
          /\ srch'.results = <<>>
          /\ \A i \in 1..Len(srch'.writers) : srch'.writers[i] = <<>>
          /\ pIndex_' = pIndex_]_vars

WitnessBadQueryRejectsBatch ==
    /\ srch.op = "searchBatch"
    /\ ret.code = kDimensionMismatch
    /\ Len(srch.queries) = 3
    /\ Len(srch.queries[1]) = Dim
    /\ Len(srch.queries[3]) # Dim
    /\ Live(pIndex_) # {}

\* C20: every list returned by search, query and searchBatch has at most k
\* elements, and its scores do not increase along the list.
ResultsBoundedSorted ==
    srch.pc = "done" =>
        \A i \in 1..Len(srch.results) :
            /\ Len(srch.results[i]) <= srch.k
            /\ \A j \in 1..(Len(srch.results[i]) - 1) :
                   srch.results[i][j].score >= srch.results[i][j + 1].score

\* C19: size() is the number of distinct ids inserted with success, by
\* insert, by insertBatch, by the load of the index and by the replay of the
\* WAL: a remove does not lower it and the insert of an id that is there
\* does not raise it.
SizeCountsInsertedIds ==
    alive => IndexSize(pIndex_) = Cardinality(inserted)

WitnessSizeCountsInsertedIds ==
    /\ alive /\ ret.op = "load" /\ recoveredFromWal_
    /\ IndexSize(pIndex_) = 1
    /\ \E i \in 1..Len(walFile.recs) :
           /\ walFile.recs[i].type = "INSERT"
           /\ walFile.recs[i].lsn > lastPersistedLsn_
           /\ indexBin.nodes[walFile.recs[i].vectorID].st # "absent"

\* C21: save writes meta.json with lastPersistedLsn = currentLsn() - 1,
\* lastPersistedTxid = currentTxid() - 1 and cleanShutdown = true, whatever
\* its checkpoint returns, and leaves the two counters as they were.
SaveWritesRecoveryMetadata ==
    [][ret'.op = "save" =>
          /\ metaJson'.exists
          /\ metaJson'.lastPersistedLsn = lsnCounter' - 1
          /\ metaJson'.lastPersistedTxid = txidCounter' - 1
          /\ metaJson'.cleanShutdown
          /\ lsnCounter' = lsnCounter
          /\ txidCounter' = txidCounter]_vars

\* a save after two logged mutations
WitnessSaveWritesRecoveryMetadata ==
    /\ alive
    /\ ret.op = "save"
    /\ lsnCounter = 3
    /\ metaJson.lastPersistedLsn = 2
    /\ metaJson.lastPersistedTxid = 2

\* the DELETE entries of the stored WAL that a load replays
ReplayedDeletes ==
    LET es == ReadAll(walFile).entries IN
    {es[i].vectorID : i \in {n \in 1..Len(es) :
                                /\ es[n].type = "DELETE"
                                /\ es[n].lsn > metaJson.lastPersistedLsn}}

\* C22: when remove(id) returns Ok the metadata map has no entry for id, and
\* the Collection that load returns has no entry for an id whose DELETE entry
\* it replayed, whatever metadata.json holds for the id.
RemoveErasesMetadata ==
    [][/\ (ret'.op = "remove" /\ ret'.code = OkStatus) =>
              metadata_'[pend.batch[1].id] = NoMeta
       /\ (ret'.op = "load" /\ ret'.code = OkStatus) =>
              \A id \in ReplayedDeletes : metadata_'[id] = NoMeta]_vars

\* load replayed the DELETE entry of an id that metadata.json has an entry for
WitnessRemoveErasesMetadata ==
    /\ alive
    /\ ret.op = "load"
    /\ ret.code = OkStatus
    /\ \E id \in ReplayedDeletes : metadataJson.map[id] # NoMeta

\* C23: setMetadata(id, m) returns with only the metadata entry of id
\* changed: the index, its size, the counters and the WAL are as before,
\* and the call needs no id of the index.  In the Collection load returns
\* after the end of a process, an id whose entry was set after the last save
\* or was there at the last save has the entry it had at that save (an id
\* whose DELETE entry is replayed has none: C22).
SetMetadataInMemoryOnly ==
    [][/\ ret'.op = "setMetadata" =>
              /\ ret'.code = OkStatus
              /\ pIndex_' = pIndex_
              /\ lsnCounter' = lsnCounter
              /\ txidCounter' = txidCounter
              /\ walFile' = walFile
              /\ \E id \in Ids : \A j \in Ids \ {id} :
                     metadata_'[j] = metadata_[j]
       /\ (ret'.op = "load" /\ ret'.code = OkStatus /\ snap.valid) =>
              \A id \in Ids \ ReplayedDeletes :
                  (snap.meta[id] # savedMeta[id] \/ savedMeta[id] # NoMeta)
                      => metadata_'[id] = savedMeta[id]]_vars

\* the failure cases of the registry: a duplicate createCollection returns
\* AlreadyExists, a getCollection or dropCollection of an unregistered name
\* returns NotFound, and the registry and the directories are as before
RegistryFailures ==
    /\ (db'.ret.op = "createCollection" /\ db'.ret.name \in db.collections_)
           => /\ db'.ret.code = kAlreadyExists
              /\ db'.collections_ = db.collections_
              /\ db'.dirs = db.dirs
    /\ (db'.ret.op \in {"getCollection", "dropCollection"}
            /\ db'.ret.name \notin db.collections_)
           => /\ db'.ret.code = kNotFound
              /\ db'.collections_ = db.collections_
              /\ db'.dirs = db.dirs

\* C24 as stated: the failure cases, and hasCollection(name) is true exactly
\* for the names created or loaded and not dropped since.
RegistryNames ==
    [][/\ RegistryFailures
       /\ db'.ret.op = "hasCollection" =>
              (db'.ret.code = "true" <=> db'.ret.name \in db'.made)]_vars

\* C24, amended: the failure cases, and hasCollection(name) is true exactly
\* for the names created or loaded and since then neither dropped nor taken
\* away by a close() that returned Ok.
RegistryNamesUntilClose ==
    [][/\ RegistryFailures
       /\ db'.ret.op = "hasCollection" =>
              (db'.ret.code = "true" <=> db'.ret.name \in db'.kept)]_vars

\* hasCollection of a name that was created or loaded, was not dropped, and
\* was closed by a close() that returned Ok, next to a name created after it
WitnessRegistryNamesUntilClose ==
    /\ db.ret.op = "hasCollection"
    /\ db.ret.code = "false"
    /\ db.ret.name \in db.made
    /\ db.kept # {}

\* the entries of the stored WAL a load has to apply, in file order
ToReplay ==
    SelectSeq(ReadAll(walFile).entries,
              LAMBDA e : /\ e.lsn > metaJson.lastPersistedLsn
                         /\ e.type \in {"INSERT", "DELETE"})

\* the index and the metadata map after the entries es from i on: an INSERT
\* is an insert into the index, a DELETE a markDelete and an erase
RECURSIVE AppliedFrom(_, _, _, _)
AppliedFrom(es, i, ix, meta) ==
    IF i > Len(es) THEN [ix |-> ix, meta |-> meta]
    ELSE IF es[i].type = "INSERT"
         THEN AppliedFrom(es, i + 1,
                          IndexInsert(ix, es[i].vectorID, es[i].embedding).ix,
                          meta)
    ELSE AppliedFrom(es, i + 1, IndexMarkDelete(ix, es[i].vectorID).ix,
                     [meta EXCEPT ![es[i].vectorID] = NoMeta])

\* C25: the Collection load returns is the saved index and the saved
\* metadata map with exactly the INSERT and DELETE entries of lsn >
\* lastPersistedLsn applied in the order of the file; the other entries
\* change neither.
ReplayAppliesNewEntries ==
    (alive /\ ret.op = "load" /\ ret.code = OkStatus) =>
        LET r == AppliedFrom(ToReplay, 1, LoadIndex(indexBin),
                             IF metadataJson.exists THEN metadataJson.map
                             ELSE NoMetadata)
        IN /\ pIndex_ = r.ix
           /\ metadata_ = r.meta

\* a load over a WAL that holds an entry to skip, an entry of another type
\* past lastPersistedLsn, and an entry that is applied
WitnessReplayAppliesNewEntries ==
    LET es == ReadAll(walFile).entries IN
    /\ alive
    /\ ret.op = "load"
    /\ ret.code = OkStatus
    /\ ToReplay # <<>>
    /\ \E i \in 1..Len(es) :
           /\ es[i].type \notin {"INSERT", "DELETE"}
           /\ es[i].lsn > metaJson.lastPersistedLsn

\* C26: after the process ended inside save, load succeeds and the
\* recovered Collection holds every mutation that had returned Ok: the last
\* acknowledged mutation of an id since the last completed save is an insert
\* whose id is found, or a remove whose id is not found.
SaveCrashRecovers ==
    (ret.op = "load" /\ snap.valid /\ snap.during = "save"
        /\ snap.acked # {}) =>
        /\ ret.code = OkStatus
        /\ alive
        /\ \A e \in snap.acked :
               LastOfId(e, snap.acked) =>
                   IF e.type = "INSERT"
                   THEN e.vectorID \in Found(pIndex_, e.embedding)
                   ELSE \A q \in GoodVecs : e.vectorID \notin Found(pIndex_, q)

\* the entries of the WAL file that no save has covered yet
PendingLogged ==
    Cardinality({i \in 1..Len(walFile.recs) :
                    walFile.recs[i].lsn > lastPersistedLsn_})

\* C27: between two calls, also after a call that returned an error,
\* currentLsn() = lastPersistedLsn + (number of WAL entries with lsn >
\* lastPersistedLsn) + 1.
LsnAccounting ==
    (alive /\ pend.op = "none") =>
        lsnCounter = lastPersistedLsn_ + PendingLogged + 1

\* C28: a remove of an id that was never inserted returns NotFound, and the
\* counters, the WAL, the index and the metadata map are as they were before
\* the call.
RemoveUnknownChangesNothing ==
    [][(pend.op = "remove" /\ ret'.op = "remove"
            /\ pend.batch[1].id \notin inserted) =>
          /\ ret'.code = kNotFound
          /\ lsnCounter' = pend.entries[1].lsn
          /\ txidCounter' = pend.entries[1].txid
          /\ pend.entries[1] \notin Range(walFile'.recs)
          /\ pIndex_' = pIndex_
          /\ metadata_' = metadata_]_vars

\* db.wal is removed or emptied while no process has the collection open
LostFiles == {MissingFile, EmptyFile}

WalLost(f) ==
    /\ ~alive
    /\ metaJson.exists
    /\ walFile # f
    /\ walFile' = f
    /\ walDurable' = f
    /\ UNCHANGED <<mem, ret, hist, loaded, savedMeta, removed, inserted, snap,
                   other>>
    /\ UNCHANGED <<metaJson, indexBin, metadataJson>>

\* inserts and removes between checkpoints whose truncation can fail,
\* process ends, a WAL that disappears between two processes, and restarts
NextRestart ==
    \/ \E id \in Ids, vec \in OneVec :
            Room(MaxLsn, MaxWal, 1) /\ InsertCall(id, vec, "ok")
    \/ InsertApply
    \/ \E id \in Ids : Room(MaxLsn, MaxWal, 1) /\ RemoveCall(id, "ok")
    \/ RemoveApply
    \/ \E w \in WalOutcomes : Save(w)
    \/ Crash(FALSE)
    \/ \E f \in LostFiles : WalLost(f)
    \/ Load

SpecRestart == Init /\ [][NextRestart]_vars

\* the entries of the file that are newer than the checkpoint
NewEntries(f, lsn) ==
    LET es == ReadAll(f).entries IN
    {i \in 1..Len(es) : es[i].lsn > lsn}

\* the WAL files that are no error for load: missing, empty, or readable
Recoverable(f) == ReadAll(f).status \in {OkStatus, kEof, kNotFound}

\* a step of load: no process has the collection open, and the WAL is left
\* alone or given its header
LoadStep ==
    /\ ~alive
    /\ ret'.op = "load"
    /\ walFile' \in {walFile, HeaderOnly}

CallFrame ==
    /\ snap' = NoSnap
    /\ UNCHANGED <<logged, codec, metric, db, opts, dirD, srch>>
    /\ UNCHANGED <<loaded, savedMeta, removed, inserted>>
    /\ UNCHANGED <<alive, metadata_, lsnCounter, txidCounter,
                   lastPersistedLsn_, recoveredFromWal_, pend, disk, hist>>

\* thread t enters HNSWIndex::search: the length check, then setEf(ef) on
\* the index that all callers share
SearchBegin(t, q, k, ef) ==
    /\ Idle
    /\ calls[t].pc = "idle"
    /\ LET r == IndexSearch(pIndex_, q, k, ef) IN
       /\ pIndex_' = r.ix
       /\ calls' = [calls EXCEPT ![t] =
                        [pc |-> IF r.res = Thrown THEN "done" ELSE "searchKnn",
                         q |-> q, k |-> k, ef |-> ef, beam |-> 0,
                         hits |-> <<>>, thrown |-> r.res = Thrown]]
       /\ ret' = IF r.res = Thrown THEN Ret("search", Thrown, TRUE) ELSE ret
    /\ CallFrame

\* thread t runs searchKnn: the library reads the ef the index holds now,
\* and the hits are turned into results
SearchKnn(t) ==
    /\ calls[t].pc = "searchKnn"
    /\ calls' = [calls EXCEPT ![t].pc = "done",
                              ![t].beam = pIndex_.ef,
                              ![t].hits = TopK(pIndex_, calls[t].q, calls[t].k,
                                               Live(pIndex_))]
    /\ ret' = Ret("search", OkStatus, FALSE)
    /\ pIndex_' = pIndex_
    /\ CallFrame

\* the caller of thread t takes the results
SearchReturn(t) ==
    /\ calls[t].pc = "done"
    /\ calls' = [calls EXCEPT ![t] = NoCall]
    /\ UNCHANGED <<pIndex_, ret>>
    /\ CallFrame

NoCallRuns == \A t \in Callers : calls[t].pc = "idle"

\* inserts while no search runs, and the searches of two threads
NextCallers ==
    \/ \E id \in Ids, vec \in GoodVecs :
            /\ NoCallRuns
            /\ Room(MaxLsn, MaxWal, 1)
            /\ InsertCall(id, vec, "ok")
    \/ InsertApply
    \/ \E t \in Callers, q \in Vecs, k \in KVals, ef \in EfVals :
            SearchBegin(t, q, k, ef)
    \/ \E t \in Callers : SearchKnn(t)
    \/ \E t \in Callers : SearchReturn(t)

SpecCallers == Init /\ [][NextCallers]_vars

\* C30: a search that runs while another thread searches the same
\* Collection with another ef executes with its own ef and returns what it
\* would return alone
SearchUsesOwnEf ==
    \A t \in Callers :
        (calls[t].pc = "done" /\ ~calls[t].thrown)
            => /\ calls[t].beam = calls[t].ef
               /\ calls[t].hits
                    = IndexSearch(pIndex_, calls[t].q, calls[t].k,
                                  calls[t].ef).hits

\* ------------------------------------------------------------------------
\* ParseEntry on records that WriteEntry did not write
\* ------------------------------------------------------------------------
\* the words b with word i replaced by v
SetWord(b, i, v) == [b EXCEPT ![i] = v]

\* the words b without their last n words
CutWords(b, n) == SubSeq(b, 1, Len(b) - n)

\* records on disk: an INSERT and a DELETE as WriteEntry writes them, with
\* the type, the dimension, the header CRC and the last word possibly
\* changed, and up to two words missing at the end
RawOf(w) ==
    {CutWords(SetWord(SetWord(SetWord(SetWord(w, 1, t), 8, d), 5, h),
                      Len(w), p), n) :
        t \in {kMinOperationType - 1, w[1], kMaxOperationType + 1},
        d \in {w[8], w[8] + 1, kMaxDimension, kMaxDimension + 1},
        h \in {w[5], 99}, p \in {w[Len(w)], 99}, n \in {0, 1, 2}}

RawRecords ==
    UNION {RawOf(WriteEntry(e)) :
              e \in {Entry("INSERT", 1, 1, 1, <<1, 0>>),
                     Entry("DELETE", 1, 1, 1, <<>>)}}

\* a file that holds the words b is handed to the reader
RawCall(b) ==
    /\ codec' = [pc |-> "written", e |-> <<>>, bytes |-> b, out |-> <<>>]
    /\ ret' = Ret("open", OkStatus, FALSE)
    /\ snap' = NoSnap
    /\ UNCHANGED <<mem, disk, hist, loaded, savedMeta, removed, inserted,
                   logged, metric, db, calls, opts,
                   dirD, srch>>

\* ParseEntry on records of any content
NextParse ==
    \/ \E b \in RawRecords : RawCall(b)
    \/ ParseCall

SpecParse == Init /\ [][NextParse]_vars

\* C31: on a record with its nine fixed words, ParseEntry returns BadRecord
\* for a type outside 1..6 or a dimension above 65536, having read nothing
\* of the payload; IoError when fewer payload words remain than the
\* dimension says; ChecksumMismatch when the header CRC or the payload CRC
\* differs from the recomputed one; and Ok exactly when all checks pass
ParseEntryStatuses ==
    (codec.pc = "parsed" /\ Len(codec.bytes) >= FixedWords)
        => LET b == codec.bytes
               rest == Len(b) - FixedWords
               st == codec.out.status
               badField ==
                   \/ b[1] \notin kMinOperationType..kMaxOperationType
                   \/ b[8] > kMaxDimension
               crcs ==
                   /\ b[5] = HeaderCrcOf(b[1], b[2], b[3], b[4])
                   /\ b[FixedWords + b[8] + 1]
                        = PayloadCrcOf(SubSeq(b, FixedWords + 1,
                                              FixedWords + b[8]))
           IN
           /\ badField => (st = kBadRecord /\ codec.out.used = 0)
           /\ (~badField /\ rest < b[8]) => st = kIoError
           /\ (~badField /\ rest >= b[8] + 1 /\ ~crcs)
                => st = kChecksumMismatch
           /\ st = OkStatus <=> (~badField /\ rest >= b[8] + 1 /\ crcs)

\* a record whose dimension is above the limit was rejected
WitnessParseEntryStatuses ==
    /\ codec.pc = "parsed"
    /\ Len(codec.bytes) >= FixedWords
    /\ codec.bytes[1] \in kMinOperationType..kMaxOperationType
    /\ codec.bytes[8] > kMaxDimension
    /\ codec.out.status = kBadRecord

\* ------------------------------------------------------------------------
\* The threads of searchBatch
\* ------------------------------------------------------------------------
\* hardware_concurrency(): unknown (0), one, two, or more than the fixed
\* upper bound
ManyHwVals == {0, 1, 2, 2 * MaxThreads}

\* batch sizes: none, one, two, and more than the fixed upper bound
BatchSizes == {0, 1, 2, MaxThreads + 1}

\* searchBatch calls of every size on every machine, on a collection that
\* holds up to one vector
NextThreads ==
    \/ Room(MaxLsn, MaxWal, 1) /\ InsertCall(1, <<1, 0>>, "ok")
    \/ InsertApply
    \/ \E n \in BatchSizes, hw \in ManyHwVals :
            SearchBatchCall([i \in 1..n |-> QueryAt(i)], 1, DefaultEf, hw)
    \/ \E t \in 1..MaxThreads : WorkerStep(t)
    \/ SearchBatchReturn

SpecThreads == Init /\ [][NextThreads]_vars

\* the smallest of the fixed upper bound, the hardware concurrency and the
\* number of queries
ThreadCap(hw, n) ==
    CHOOSE m \in {MaxThreads, hw, n} : \A x \in {MaxThreads, hw, n} : m <= x

\* C32: searchBatch starts at most min(8, hardware concurrency, number of
\* queries) threads; when that minimum is 0 or 1, or there is at most one
\* query, it starts none and the calling thread (thread 0) searches every
\* query
ThreadsCapped ==
    (srch.op = "searchBatch" /\ ret.op = "searchBatch"
            /\ ret.code \in {OkStatus, Running})
        => LET n == Len(srch.queries)
               cap == ThreadCap(srch.hw, n)
           IN
           /\ Len(srch.workers) <= cap
           /\ (cap <= 1 \/ n <= 1)
                => /\ srch.workers = <<>>
                   /\ srch.pc = "done"
                   /\ \A i \in 1..n :
                        /\ srch.writers[i] = <<0>>
                        /\ srch.results[i]
                             = IndexSearch(pIndex_, srch.queries[i], srch.k,
                                           srch.ef).hits

\* more queries than the upper bound on a machine that reports no hardware
\* concurrency: all searched by the calling thread
WitnessThreadsCapped ==
    /\ srch.op = "searchBatch"
    /\ ret.op = "searchBatch"
    /\ ret.code = OkStatus
    /\ srch.hw = 0
    /\ Len(srch.queries) > MaxThreads
    /\ srch.workers = <<>>
    /\ \A i \in 1..Len(srch.queries) : srch.writers[i] = <<0>>

\* ------------------------------------------------------------------------
\* The index options in meta.json
\* ------------------------------------------------------------------------
\* j[...].get<uint32_t>(): the conversion of the JSON number to 32 bits
\* keeps its low 32 bits
ToUint32(n) == U64(0, 0, n[3], n[4])

\* hnswConfigToJson: the three size_t values as JSON numbers
HnswConfigToJson(config) ==
    [maxElements |-> config.maxElements, M |-> config.M,
     efConstruction |-> config.efConstruction]

\* jsonToHNSWConfig: each key read with get<uint32_t>()
JsonToHNSWConfig(j) ==
    [maxElements |-> ToUint32(j.maxElements), M |-> ToUint32(j.M),
     efConstruction |-> ToUint32(j.efConstruction)]

\* IndexOptions a collection is constructed with: max_elements is a u64
\* (1, 1000000, 2^32 - 1, 2^32, 2^32 + 1, 2^63 + 5), M and ef_construction
\* are u32
OptionSets ==
    [maxElements : {U64(0, 0, 0, 1), U64(0, 0, 15, 16960),
                    U64(0, 0, 65535, 65535), U64(0, 1, 0, 0),
                    U64(0, 1, 0, 1), U64(32768, 0, 0, 5)},
     M : {U64(0, 0, 0, 16), U64(0, 0, 0, 64), U64(0, 0, 65535, 65535)},
     efConstruction : {U64(0, 0, 0, 100), U64(0, 0, 0, 200),
                       U64(0, 0, 65535, 65535)}]

OptsFrame ==
    UNCHANGED <<mem, ret, disk, hist, loaded, savedMeta, removed, inserted,
                snap, logged, codec, metric, db, calls, dirD, srch>>

\* Impl(config, indexOptions, path): hnswConfig_ is the options
ConstructWith(o) ==
    /\ opts' = [NoOpts EXCEPT !.pc = "constructed", !.config = o]
    /\ OptsFrame

\* save: exportConfigToJson writes hnswConfig_ under "hnsw"
SaveOptions ==
    /\ opts.pc \in {"constructed", "loaded"}
    /\ opts' = [opts EXCEPT !.pc = "saved",
                            !.json = HnswConfigToJson(
                                        IF opts.pc = "loaded" THEN opts.loaded
                                        ELSE opts.config)]
    /\ OptsFrame

\* load: importConfigFromJson, and the Impl constructed with its result
LoadOptions ==
    /\ opts.pc = "saved"
    /\ opts' = [opts EXCEPT !.pc = "loaded",
                            !.loaded = JsonToHNSWConfig(opts.json)]
    /\ OptsFrame

NextOptions ==
    \/ \E o \in OptionSets : ConstructWith(o)
    \/ SaveOptions
    \/ LoadOptions

SpecOptions == Init /\ [][NextOptions]_vars

\* C33: the collection that load returns has the max_elements, M and
\* ef_construction of the collection that was saved
OptionsRoundTrip ==
    [][(opts.pc = "saved" /\ opts'.pc = "loaded")
        => opts'.loaded = (IF opts.loaded = NoConfig THEN opts.config
                           ELSE opts.loaded)]_vars

\* ------------------------------------------------------------------------
\* save to a directory other than the persistence path
\* ------------------------------------------------------------------------
\* save(d), d # p, with outcome w of the truncation: the three files go to
\* d, the WAL that is truncated is the collection's own, under p. The
\* mutations that returned Ok stay in `acked`: nothing of them was written
\* under p.
SaveElsewhere(w) ==
    /\ Idle
    /\ dirD' = [metaJson |-> [exists |-> TRUE,
                              lastPersistedLsn |-> Persisted(lsnCounter),
                              lastPersistedTxid |-> Persisted(txidCounter),
                              cleanShutdown |-> TRUE],
                indexBin |-> [exists |-> TRUE, nodes |-> pIndex_.nodes,
                              maxElements |-> pIndex_.maxElements],
                metadataJson |-> IF MetadataEmpty(metadata_)
                                 THEN dirD.metadataJson
                                 ELSE [exists |-> TRUE, map |-> metadata_]]
    /\ walFile' = CheckpointWal(walFile, w)
    /\ walDurable' = CheckpointWalDurable(walFile, walDurable, w)
    /\ IF WalFailed(WalStatus(w))
       THEN /\ ret' = Ret("save_d", WalStatus(w), FALSE)
            /\ clean' = FALSE
            /\ UNCHANGED lastPersistedLsn_
       ELSE /\ ret' = Ret("save_d", OkStatus, FALSE)
            /\ lastPersistedLsn_' = Persisted(lsnCounter)
            /\ clean' = clean
    /\ snap' = NoSnap
    /\ srch' = NoSearch
    /\ UNCHANGED <<logged, codec, metric, db, calls, opts>>
    /\ UNCHANGED <<loaded, savedMeta, removed, inserted, acked>>
    /\ UNCHANGED <<metaJson, indexBin, metadataJson>>
    /\ UNCHANGED <<alive, pIndex_, metadata_, lsnCounter, txidCounter,
                   recoveredFromWal_, pend, okLsn, okTxid>>

\* mutations, saves to the persistence path and to another directory,
\* process ends and restarts from the persistence path
NextElsewhere ==
    \/ \E id \in Ids, vec \in OneVec :
            Room(MaxLsn, MaxWal, 1) /\ InsertCall(id, vec, "ok")
    \/ InsertApply
    \/ \E id \in Ids : Room(MaxLsn, MaxWal, 1) /\ RemoveCall(id, "ok")
    \/ RemoveApply
    \/ Save("ok")
    \/ \E w \in WalOutcomes : SaveElsewhere(w)
    \/ Crash(FALSE)
    \/ Load

SpecElsewhere == Init /\ [][NextElsewhere]_vars

\* C34: the mutations that returned Ok on a loaded Collection and that no
\* save has written under its persistence path are recovered by load of
\* that path after the process ends, also when the Collection was saved to
\* another directory in between
SaveElsewhereKeepsRecovery ==
    (ret.op = "load" /\ snap.valid /\ snap.loaded /\ snap.clean
        /\ snap.acked # {}) =>
        /\ ret.code = OkStatus
        /\ alive
        /\ \A e \in snap.acked :
               LastOfId(e, snap.acked) =>
                   IF e.type = "INSERT"
                   THEN e.vectorID \in Found(pIndex_, e.embedding)
                   ELSE \A q \in GoodVecs : e.vectorID \notin Found(pIndex_, q)

\* C35: a Collection constructed on its persistence path, never saved and
\* never closed, ends after mutations that returned Ok: load of the path,
\* which holds the WAL and neither meta.json nor index.bin, returns a
\* Collection in which the last acknowledged mutation of each id shows
NeverSavedRecovers ==
    (ret.op = "load" /\ snap.valid /\ ~snap.loaded /\ snap.clean
        /\ snap.acked # {} /\ ~metaJson.exists /\ ~indexBin.exists) =>
        /\ ret.code = OkStatus
        /\ alive
        /\ recoveredFromWal_
        /\ \A e \in snap.acked :
               LastOfId(e, snap.acked) =>
                   IF e.type = "INSERT"
                   THEN e.vectorID \in Found(pIndex_, e.embedding)
                   ELSE \A q \in GoodVecs : e.vectorID \notin Found(pIndex_, q)

\* ------------------------------------------------------------------------
\* A new Collection on a path that holds a WAL
\* ------------------------------------------------------------------------
\* Collection(config, indexOptions, p) while no process has p open: the
\* members get their initial values (lsnCounter = 1, txidCounter = 1), and
\* initializeWal writes a header only when db.wal does not exist; nothing is
\* read from p
Reconstruct(cap, w) ==
    /\ ~alive
    /\ alive' = TRUE
    /\ pIndex_' = EmptyIndex(cap)
    /\ metadata_' = NoMetadata
    /\ lsnCounter' = 1
    /\ txidCounter' = 1
    /\ lastPersistedLsn_' = 0
    /\ recoveredFromWal_' = FALSE
    /\ pend' = NoPend
    /\ ret' = Ret("construct", OkStatus, FALSE)
    /\ walFile' = InitializeWal(walFile, w)
    /\ walDurable' = InitializeWalDurable(walFile, walDurable, w)
    /\ okLsn' = 0
    /\ okTxid' = 0
    /\ acked' = {}
    /\ clean' = TRUE
    /\ loaded' = FALSE
    /\ removed' = {}
    /\ inserted' = {}
    /\ snap' = snap
    /\ srch' = NoSearch
    /\ UNCHANGED aux
    /\ UNCHANGED <<metaJson, indexBin, metadataJson, savedMeta>>

\* sessions that end without save, each started by load or by a new
\* Collection on the same path
NextSessions ==
    \/ \E id \in Ids, vec \in OneVec :
            Room(MaxLsn, MaxWal, 1) /\ InsertCall(id, vec, "ok")
    \/ InsertApply
    \/ \E id \in Ids : Room(MaxLsn, MaxWal, 1) /\ RemoveCall(id, "ok")
    \/ RemoveApply
    \/ Save("ok")
    \/ Crash(FALSE)
    \/ Load
    \/ \E cap \in CapVals : Reconstruct(cap, "ok")

SpecSessions == Init /\ [][NextSessions]_vars

\* C36: the LSNs of the entries in the WAL file are strictly increasing in
\* file order
WalLsnsIncrease ==
    \A i, j \in 1..Len(walFile.recs) :
        i < j => walFile.recs[i].lsn < walFile.recs[j].lsn

\* C37: a Collection whose last call was a save that returned Ok ends, and
\* load of the directory returns a Collection whose metadata map is the map
\* the saved Collection held
SavedMetadataLoads ==
    (ret.op = "load" /\ snap.valid /\ snap.afterSave) =>
        /\ ret.code = OkStatus
        /\ alive
        /\ metadata_ = snap.meta

\* ------------------------------------------------------------------------
\* Inserts that fail
\* ------------------------------------------------------------------------
\* inserts whose WAL append can fail and whose index insert can fail,
\* removes, saves, process ends between two calls, and restarts
NextInsertFail ==
    \/ \E id \in Ids, vec \in OneVec, w \in WalOutcomes :
            Room(MaxLsn, MaxWal, 1) /\ InsertCall(id, vec, w)
    \/ InsertApply
    \/ \E id \in Ids : Room(MaxLsn, MaxWal, 1) /\ RemoveCall(id, "ok")
    \/ RemoveApply
    \/ Save("ok")
    \/ pend.op = "none" /\ Crash(FALSE)
    \/ Load

SpecInsertFail == Init /\ [][NextInsertFail]_vars

\* C38: a loaded Collection on which a call has failed since its last save
\* ends between two calls: load succeeds, and the index it returns is the
\* index the Collection had, which is the work of the calls that returned Ok
FailedInsertLeavesNoEntry ==
    (ret.op = "load" /\ snap.valid /\ snap.loaded /\ ~snap.clean) =>
        /\ ret.code = OkStatus
        /\ alive
        /\ pIndex_.nodes = snap.nodes

\* ------------------------------------------------------------------------
\* Sessions that each start with a replay
\* ------------------------------------------------------------------------
\* inserts and removes that succeed, saves, process ends and restarts, with
\* room for a save and two sessions without one
NextRepeat ==
    \/ \E id \in Ids, vec \in OneVec :
            Room(MaxLsn + 1, MaxWal, 1) /\ InsertCall(id, vec, "ok")
    \/ InsertApply
    \/ \E id \in Ids : Room(MaxLsn + 1, MaxWal, 1) /\ RemoveCall(id, "ok")
    \/ RemoveApply
    \/ Save("ok")
    \/ Crash(FALSE)
    \/ Load

SpecRepeat == Init /\ [][NextRepeat]_vars

\* the highest LSN among the entries of the file, 0 without entries
MaxLsnIn(f) ==
    LET es == ReadAll(f).entries IN
    IF es = <<>> THEN 0
    ELSE LET i == CHOOSE i \in 1..Len(es) :
                     \A j \in 1..Len(es) : es[j].lsn <= es[i].lsn
         IN es[i].lsn

====
